---------------------------- MODULE Spec2Model ----------------------------
(***************************************************************************)
(* A model of mmbench's ExecutionTimer (ExecutionTimer.c): the per-metric  *)
(* running-statistics accumulator (ExecutionTimerDatum) and the timer that *)
(* owns seven of them.                                                     *)
(*                                                                         *)
(* C doubles are modelled as exact rationals (records cls/num/den), with   *)
(* the IEEE special values INFINITY and NaN as distinguished records and   *)
(* the square root of a non-square as a symbolic surd.  Rounding of the    *)
(* double operations is therefore outside the model: "equals" below means  *)
(* equality of the real numbers the code's expressions denote.             *)
(***************************************************************************)
EXTENDS Integers, Sequences, FiniteSets, TLC

(***************************************************************************)
(* Bounds of the model.                                                    *)
(***************************************************************************)
\* number of ExecutionTimerDatumUpdate calls between two resets (SpecDatum)
MaxUpdates == 4

\* the observations handed to ExecutionTimerDatumUpdate in SpecDatum
Values == {-1, 1, 2, 4}

(***************************************************************************)
(* double: exact rationals num/den (den > 0, lowest terms) and specials.   *)
(***************************************************************************)
Abs(x) == IF x < 0 THEN -x ELSE x

RECURSIVE GCD(_, _)
GCD(a, b) == IF b = 0 THEN a ELSE GCD(b, a % b)

\* the double with value n/d, d # 0
Fin(n, d) ==
    LET g == GCD(Abs(n), Abs(d))
        s == IF d < 0 THEN -1 ELSE 1
    IN  [cls |-> "finite", num |-> s * (n \div g), den |-> s * (d \div g)]

\* (double)i for an integer i
D(i) == [cls |-> "finite", num |-> i, den |-> 1]

\* the constant INFINITY of math.h
INFINITY == [cls |-> "inf", num |-> 1, den |-> 0]

NegINFINITY == [cls |-> "inf", num |-> -1, den |-> 0]

NaN == [cls |-> "nan", num |-> 0, den |-> 0]

DAdd(a, b) == Fin(a.num * b.den + b.num * a.den, a.den * b.den)

DSub(a, b) == Fin(a.num * b.den - b.num * a.den, a.den * b.den)

DMul(a, b) == Fin(a.num * b.num, a.den * b.den)

\* IEEE division of finite doubles: x/0 is an infinity, 0/0 is NaN
DDiv(a, b) ==
    IF b.num # 0 THEN Fin(a.num * b.den, a.den * b.num)
    ELSE IF a.num = 0 THEN NaN
    ELSE IF a.num > 0 THEN INFINITY ELSE NegINFINITY

DLt(a, b) == a.num * b.den < b.num * a.den

DGt(a, b) == DLt(b, a)

IsSquare(k) == \E r \in 0..k : r * r = k

IRoot(k) == CHOOSE r \in 0..k : r * r = k

\* sqrt() of math.h: exact on squares of rationals, a symbolic surd otherwise
Sqrt(a) ==
    IF a.cls = "nan" THEN NaN
    ELSE IF a.cls = "inf" THEN (IF a.num > 0 THEN INFINITY ELSE NaN)
    ELSE IF a.num < 0 THEN NaN
    ELSE IF IsSquare(a.num) /\ IsSquare(a.den)
         THEN Fin(IRoot(a.num), IRoot(a.den))
    ELSE [cls |-> "sqrt", num |-> a.num, den |-> a.den]

(***************************************************************************)
(* ExecutionTimerDatum                                                     *)
(***************************************************************************)
\* memset(d, 0, sizeof(*d))
ExecutionTimerDatumReset(d) ==
    [value |-> D(0), min |-> D(0), max |-> D(0), m_i |-> D(0), s_i |-> D(0)]

\* a slip: a later sample replaces min when it is larger, not when it is smaller
DatumUpdate_MinComparesUp(d, n, value) ==
    IF n > 1
    THEN LET m_prev == d.m_i
             m_new  == DAdd(d.m_i, DDiv(DSub(value, m_prev), D(n)))
         IN  [value |-> value,
              max   |-> IF DGt(value, d.max) THEN value ELSE d.max,
              min   |-> IF DGt(value, d.min) THEN value ELSE d.min,
              m_i   |-> m_new,
              s_i   |-> DAdd(d.s_i, DMul(DSub(value, m_prev), DSub(value, m_new)))]
    ELSE [d EXCEPT !.value = value, !.min = value, !.max = value, !.m_i = value]

\* a slip: the first sample sets max and the mean but not min
DatumUpdate_FirstKeepsMin(d, n, value) ==
    IF n > 1
    THEN LET m_prev == d.m_i
             m_new  == DAdd(d.m_i, DDiv(DSub(value, m_prev), D(n)))
         IN  [value |-> value,
              max   |-> IF DGt(value, d.max) THEN value ELSE d.max,
              min   |-> IF DLt(value, d.min) THEN value ELSE d.min,
              m_i   |-> m_new,
              s_i   |-> DAdd(d.s_i, DMul(DSub(value, m_prev), DSub(value, m_new)))]
    ELSE [d EXCEPT !.value = value, !.max = value, !.m_i = value]

\* a slip: the mean is advanced by the whole difference, not by difference/n
DatumUpdate_NoDivide(d, n, value) ==
    IF n > 1
    THEN LET m_prev == d.m_i
             m_new  == DAdd(d.m_i, DSub(value, m_prev))
         IN  [value |-> value,
              max   |-> IF DGt(value, d.max) THEN value ELSE d.max,
              min   |-> IF DLt(value, d.min) THEN value ELSE d.min,
              m_i   |-> m_new,
              s_i   |-> DAdd(d.s_i, DMul(DSub(value, m_prev), DSub(value, m_new)))]
    ELSE [d EXCEPT !.value = value, !.min = value, !.max = value, !.m_i = value]

\* a slip: both factors of the sum-of-squares term use the mean before the update
DatumUpdate_OldMeanTwice(d, n, value) ==
    IF n > 1
    THEN LET m_prev == d.m_i
             m_new  == DAdd(d.m_i, DDiv(DSub(value, m_prev), D(n)))
         IN  [value |-> value,
              max   |-> IF DGt(value, d.max) THEN value ELSE d.max,
              min   |-> IF DLt(value, d.min) THEN value ELSE d.min,
              m_i   |-> m_new,
              s_i   |-> DAdd(d.s_i, DMul(DSub(value, m_prev), DSub(value, m_prev)))]
    ELSE [d EXCEPT !.value = value, !.min = value, !.max = value, !.m_i = value]

\* ExecutionTimerDatumUpdate(d, n, value); the n == 1 branch leaves s_i alone
ExecutionTimerDatumUpdate(d, n, value) ==
    IF n > 1
    THEN LET m_prev == d.m_i
             m_new  == DAdd(d.m_i, DDiv(DSub(value, m_prev), D(n)))
         IN  [value |-> value,
              max   |-> IF DGt(value, d.max) THEN value ELSE d.max,
              min   |-> IF DLt(value, d.min) THEN value ELSE d.min,
              m_i   |-> m_new,
              s_i   |-> DAdd(d.s_i, DMul(DSub(value, m_prev), DSub(value, m_new)))]
    ELSE [d EXCEPT !.value = value, !.min = value, !.max = value, !.m_i = value]

ExecutionTimerDatumGetAverage(d) == d.m_i

\* d->s_i / (double)(n - 1); every caller passes n >= 1 (n = 1 divides by zero)
ExecutionTimerDatumGetVariance(d, n) ==
    DDiv(d.s_i, D(n - 1))

ExecutionTimerDatumGetStdDeviation(d, n) ==
    Sqrt(ExecutionTimerDatumGetVariance(d, n))

(***************************************************************************)
(* The clock and the resource usage of the process, as clock_gettime and   *)
(* getrusage report them.  Time passes in steps of half a second; each     *)
(* step is one kind of work, which moves the usage counters it touches.    *)
(***************************************************************************)
\* number of half-second steps of the clock in one behaviour
MaxTicks == 2

\* largest cycleCount a behaviour reaches
MaxCycles == 2

\* largest reference count a behaviour reaches
MaxRefs == 2

NSEC_PER_SEC == 1000000000

USEC_PER_SEC == 1000000

WorkKinds == {"user", "sys", "page"}

\* struct timespec / struct timeval advanced by half a second
AddHalfSecond(t, unitsPerSec) ==
    LET sub == t.sub + (unitsPerSec \div 2)
    IN  [sec |-> t.sec + (sub \div unitsPerSec), sub |-> sub % unitsPerSec]

\* the process after half a second of the given kind of work
Advance(e, kind) ==
    LET time == AddHalfSecond(e.time, NSEC_PER_SEC)
        u    == e.usage
    IN  [time  |-> time,
         usage |->
            CASE kind = "idle" -> u
              [] kind = "user" ->
                    [u EXCEPT !.ru_utime = AddHalfSecond(@, USEC_PER_SEC)]
              [] kind = "sys"  ->
                    [u EXCEPT !.ru_stime = AddHalfSecond(@, USEC_PER_SEC),
                              !.ru_inblock = @ + 1]
              [] kind = "page" ->
                    [u EXCEPT !.ru_maxrss = @ + 1,
                              !.ru_nswap = @ + 1,
                              !.ru_oublock = @ + 2]]

ZeroTime == [sec |-> 0, sub |-> 0]

\* the process when the model starts: nothing used yet but one unit of memory
BootEnv ==
    [time  |-> ZeroTime,
     usage |-> [ru_utime |-> ZeroTime, ru_stime |-> ZeroTime, ru_maxrss |-> 1,
                ru_nswap |-> 0, ru_inblock |-> 0, ru_oublock |-> 0]]

(***************************************************************************)
(* ExecutionTimer                                                          *)
(***************************************************************************)
ExecutionTimerMetricWalltime == 0

ExecutionTimerMetricUserCPU == 1

ExecutionTimerMetricSystemCPU == 2

ExecutionTimerMetricMaxRSS == 3

ExecutionTimerMetricNSwaps == 4

ExecutionTimerMetricIOBlocksIn == 5

ExecutionTimerMetricIOBlocksOut == 6

ExecutionTimerMetricEOL == 7

ExecutionTimerValueLastValue == 0

ExecutionTimerValueMin == 1

ExecutionTimerValueMax == 2

ExecutionTimerValueAverage == 3

ExecutionTimerValueVariance == 4

ExecutionTimerValueStdDeviation == 5

ExecutionTimerValueEOL == 6

Metrics == 0..(ExecutionTimerMetricEOL - 1)

\* what malloc() may hand to ExecutionTimerCreate: the bytes are indeterminate
JunkTimespec == [sec |-> 5, sub |-> NSEC_PER_SEC \div 2]

JunkTimeval == [sec |-> 3, sub |-> USEC_PER_SEC \div 2]

JunkDatum == [value |-> D(9), min |-> D(8), max |-> D(7), m_i |-> D(6), s_i |-> D(5)]

UninitializedMemory ==
    { [refCount |-> 0, isStarted |-> FALSE,
       startTime |-> ZeroTime, endTime |-> ZeroTime,
       startUsage |-> [BootEnv.usage EXCEPT !.ru_maxrss = 0],
       endUsage |-> [BootEnv.usage EXCEPT !.ru_maxrss = 0],
       cycleCount |-> 0,
       metrics |-> [m \in Metrics |-> ExecutionTimerDatumReset(JunkDatum)]],
      [refCount |-> 3, isStarted |-> TRUE,
       startTime |-> JunkTimespec, endTime |-> ZeroTime,
       startUsage |-> [ru_utime |-> JunkTimeval, ru_stime |-> ZeroTime, ru_maxrss |-> 4,
                       ru_nswap |-> 4, ru_inblock |-> 4, ru_oublock |-> 4],
       endUsage |-> [ru_utime |-> ZeroTime, ru_stime |-> JunkTimeval, ru_maxrss |-> 6,
                     ru_nswap |-> 6, ru_inblock |-> 6, ru_oublock |-> 6],
       cycleCount |-> 2,
       metrics |-> [m \in Metrics |-> JunkDatum]] }

\* a slip: the accumulators are cleared but the started flag is kept
Reset_KeepsStarted(t) ==
    [t EXCEPT !.cycleCount = 0,
              !.metrics = [m \in Metrics |-> ExecutionTimerDatumReset(t.metrics[m])]]

\* a slip: the sum of squares of each accumulator survives the reset
Reset_KeepsSumSq(t) ==
    [t EXCEPT !.isStarted = FALSE,
              !.cycleCount = 0,
              !.metrics = [m \in Metrics |->
                  [ExecutionTimerDatumReset(t.metrics[m]) EXCEPT !.s_i = t.metrics[m].s_i]]]

__ExecutionTimerReset(t) ==
    [t EXCEPT !.isStarted = FALSE,
              !.cycleCount = 0,
              !.metrics = [m \in Metrics |-> ExecutionTimerDatumReset(t.metrics[m])]]

\* (end.tv_sec - start.tv_sec) + scale * (end.tv_[n|u]sec - start.tv_[n|u]sec),
\* scale being 1e-9 or 1e-6
Elapsed(start, end, unitsPerSec) ==
    DAdd(D(end.sec - start.sec), DMul(Fin(1, unitsPerSec), D(end.sub - start.sub)))

\* a slip: the peak resident size is recorded as a difference like the counters
MetricSample_MaxRSSAsDelta(t, m) ==
    CASE m = ExecutionTimerMetricWalltime ->
            Elapsed(t.startTime, t.endTime, NSEC_PER_SEC)
      [] m = ExecutionTimerMetricUserCPU ->
            Elapsed(t.startUsage.ru_utime, t.endUsage.ru_utime, USEC_PER_SEC)
      [] m = ExecutionTimerMetricSystemCPU ->
            Elapsed(t.startUsage.ru_stime, t.endUsage.ru_stime, USEC_PER_SEC)
      [] m = ExecutionTimerMetricMaxRSS ->
            D(t.endUsage.ru_maxrss - t.startUsage.ru_maxrss)
      [] m = ExecutionTimerMetricNSwaps ->
            D(t.endUsage.ru_nswap - t.startUsage.ru_nswap)
      [] m = ExecutionTimerMetricIOBlocksIn ->
            D(t.endUsage.ru_inblock - t.startUsage.ru_inblock)
      [] m = ExecutionTimerMetricIOBlocksOut ->
            D(t.endUsage.ru_oublock - t.startUsage.ru_oublock)

\* the value __ExecutionTimerUpdateMetrics records for metric m
MetricSample(t, m) ==
    CASE m = ExecutionTimerMetricWalltime ->
            Elapsed(t.startTime, t.endTime, NSEC_PER_SEC)
      [] m = ExecutionTimerMetricUserCPU ->
            Elapsed(t.startUsage.ru_utime, t.endUsage.ru_utime, USEC_PER_SEC)
      [] m = ExecutionTimerMetricSystemCPU ->
            Elapsed(t.startUsage.ru_stime, t.endUsage.ru_stime, USEC_PER_SEC)
      [] m = ExecutionTimerMetricMaxRSS ->
            D(t.endUsage.ru_maxrss)
      [] m = ExecutionTimerMetricNSwaps ->
            D(t.endUsage.ru_nswap - t.startUsage.ru_nswap)
      [] m = ExecutionTimerMetricIOBlocksIn ->
            D(t.endUsage.ru_inblock - t.startUsage.ru_inblock)
      [] m = ExecutionTimerMetricIOBlocksOut ->
            D(t.endUsage.ru_oublock - t.startUsage.ru_oublock)

__ExecutionTimerUpdateMetrics(t) ==
    LET n == t.cycleCount + 1
    IN  [t EXCEPT !.cycleCount = n,
                  !.metrics = [m \in Metrics |->
                      ExecutionTimerDatumUpdate(t.metrics[m], n, MetricSample(t, m))]]

\* malloc succeeded and returned the block mem (on failure the function returns
\* NULL and there is no timer to speak of)
ExecutionTimerCreate(mem) == __ExecutionTimerReset([mem EXCEPT !.refCount = 1])

\* a slip: the handle is returned without counting the new reference
Retain_NoCount(t) == t

ExecutionTimerRetain(t) == [t EXCEPT !.refCount = @ + 1]

\* --refCount; the caller frees the block when the result's refCount is 0
ExecutionTimerRelease(t) == [t EXCEPT !.refCount = @ - 1]

ExecutionTimerReset(t) == __ExecutionTimerReset(t)

ExecutionTimerIsStarted(t) == t.isStarted

ExecutionTimerCycleCount(t) == t.cycleCount

\* a slip: one cycle already counts as statistics
HasStatistics_OneCycle(t) == t.cycleCount > 0

ExecutionTimerHasStatistics(t) == t.cycleCount > 1

\* a slip: a start while started keeps the window that is already open
Start_KeepsOpenWindow(t, now) ==
    IF t.isStarted THEN t
    ELSE [t EXCEPT !.isStarted = TRUE,
                   !.startTime = now.time,
                   !.startUsage = now.usage]

\* now: what clock_gettime and getrusage report during the call
ExecutionTimerStart(t, now) ==
    [t EXCEPT !.isStarted = TRUE,
              !.startTime = now.time,
              !.startUsage = now.usage]

\* a slip: the isStarted test is missing
Stop_Unguarded(t, now) ==
    __ExecutionTimerUpdateMetrics(
        [t EXCEPT !.endUsage = now.usage,
                  !.endTime = now.time,
                  !.isStarted = FALSE])

\* a slip: the end snapshot is taken before the isStarted test
Stop_SnapshotsFirst(t, now) ==
    IF t.isStarted
    THEN __ExecutionTimerUpdateMetrics(
            [t EXCEPT !.endUsage = now.usage,
                      !.endTime = now.time,
                      !.isStarted = FALSE])
    ELSE [t EXCEPT !.endUsage = now.usage, !.endTime = now.time]

\* a slip: the started flag is not cleared
Stop_LeavesStarted(t, now) ==
    IF t.isStarted
    THEN __ExecutionTimerUpdateMetrics(
            [t EXCEPT !.endUsage = now.usage,
                      !.endTime = now.time])
    ELSE t

ExecutionTimerStop(t, now) ==
    IF t.isStarted
    THEN __ExecutionTimerUpdateMetrics(
            [t EXCEPT !.endUsage = now.usage,
                      !.endTime = now.time,
                      !.isStarted = FALSE])
    ELSE t

\* theMetric and theValue are unsigned int
ExecutionTimerGetValue(t, theMetric, theValue) ==
    IF theMetric < ExecutionTimerMetricEOL
    THEN IF ExecutionTimerHasStatistics(t)
         THEN CASE theValue = ExecutionTimerValueLastValue ->
                        t.metrics[theMetric].value
                [] theValue = ExecutionTimerValueMin ->
                        t.metrics[theMetric].min
                [] theValue = ExecutionTimerValueMax ->
                        t.metrics[theMetric].max
                [] theValue = ExecutionTimerValueAverage ->
                        ExecutionTimerDatumGetAverage(t.metrics[theMetric])
                [] theValue = ExecutionTimerValueVariance ->
                        ExecutionTimerDatumGetVariance(t.metrics[theMetric], t.cycleCount)
                [] theValue = ExecutionTimerValueStdDeviation ->
                        ExecutionTimerDatumGetStdDeviation(t.metrics[theMetric], t.cycleCount)
                [] OTHER -> INFINITY
         ELSE IF t.cycleCount > 0 /\ theValue = ExecutionTimerValueLastValue
              THEN t.metrics[theMetric].value
              ELSE INFINITY
    ELSE INFINITY

(***************************************************************************)
(* The method registries: MatrixMultiplyMethod.c and MatrixInitMethod.c.   *)
(* The two files hold the same code for the list, Lookup, Alloc, the       *)
(* internal Register and Unregister; it is modelled once, under the names  *)
(* of MatrixMultiplyMethod.c, over a record r of the file's statics:       *)
(*   r.methods          the linked list, head first                        *)
(*   r.IsInitialized, r.IsInitializing   the two static flags              *)
(*   r.file             which of the two files the statics belong to       *)
(*   r.HAVE_OPENMP      whether the file was compiled with OpenMP          *)
(*   r.initializations  how many times the body of Initialize has run      *)
(*                      (kept for the properties, not in the C code)       *)
(* A C string is the sequence of its characters before the NUL.            *)
(***************************************************************************)
NUL == "NUL"

UpperCase == <<"A", "B", "C", "D", "E", "F", "G", "H", "I", "J", "K", "L", "M", "N", "O", "P", "Q", "R", "S", "T", "U", "V", "W", "X", "Y", "Z">>

LowerCase == <<"a", "b", "c", "d", "e", "f", "g", "h", "i", "j", "k", "l", "m", "n", "o", "p", "q", "r", "s", "t", "u", "v", "w", "x", "y", "z">>

\* tolower() of ctype.h in the C locale
LowerOfUpper ==
    [c \in {UpperCase[i] : i \in 1..Len(UpperCase)} |->
        LowerCase[CHOOSE i \in 1..Len(UpperCase) : UpperCase[i] = c]]

tolower(c) == IF c \in DOMAIN LowerOfUpper THEN LowerOfUpper[c] ELSE c

strlen(s) == Len(s)

\* s[i] of a C string, i from 0 up to and including the terminating NUL
CharAt(s, i) == IF i < Len(s) THEN s[i + 1] ELSE NUL

\* strncasecmp(s1, s2, n): 0 when the first n characters (or all of both
\* strings, when they end before that) agree without regard to case,
\* non-zero (1 here, only tested against 0) otherwise
strncasecmp(s1, s2, n) ==
    IF \A i \in 0..(n - 1) :
           (i <= Len(s1) /\ i <= Len(s2)) => tolower(CharAt(s1, i)) = tolower(CharAt(s2, i))
    THEN 0 ELSE 1

strcasecmp(s1, s2) ==
    strncasecmp(s1, s2, (IF Len(s1) > Len(s2) THEN Len(s1) ELSE Len(s2)) + 1)

\* .helpToken = NULL
NoHelpToken == <<>>

\* a callback bundle: its help token and the functions it points to
Callbacks(helpToken, functions) == [helpToken |-> helpToken, functions |-> functions]

\* the bundle a caller of the public Register passes
CallerCallbacks == Callbacks(NoHelpToken, "caller")

\* a NULL MatrixMultiplyMethod_t pointer
NULL == [canBeUnregistered |-> FALSE, name |-> <<>>, nameLen |-> 0,
         callbacks |-> Callbacks(NoHelpToken, "none")]

\* the built-in methods in the order __MatrixMultiplyMethodInitialize registers them

MultiplyBuiltIns ==
    << [name |-> <<"b", "l", "a", "s", "-", "f", "o", "r", "t", "r", "a", "n">>,
        callbacks |-> Callbacks(NoHelpToken, "__MatrixMultiplyMethodBLASFortran")],
       [name |-> <<"b", "l", "a", "s">>,
        callbacks |-> Callbacks(NoHelpToken, "__MatrixMultiplyMethodBLAS")],
       [name |-> <<"o", "p", "t", "-", "f", "o", "r", "t", "r", "a", "n", "-", "o", "m", "p">>,
        callbacks |-> Callbacks(NoHelpToken, "__MatrixMultiplyMethodOptFortranOMP")],
       [name |-> <<"b", "a", "s", "i", "c", "-", "f", "o", "r", "t", "r", "a", "n", "-", "o", "m", "p">>,
        callbacks |-> Callbacks(NoHelpToken, "__MatrixMultiplyMethodBasicFortranOMP")],
       [name |-> <<"o", "p", "t", "-", "f", "o", "r", "t", "r", "a", "n">>,
        callbacks |-> Callbacks(NoHelpToken, "__MatrixMultiplyMethodOptFortran")],
       [name |-> <<"s", "m", "a", "r", "t", "-", "f", "o", "r", "t", "r", "a", "n">>,
        callbacks |-> Callbacks(NoHelpToken, "__MatrixMultiplyMethodSmartFortran")],
       [name |-> <<"b", "a", "s", "i", "c", "-", "f", "o", "r", "t", "r", "a", "n">>,
        callbacks |-> Callbacks(NoHelpToken, "__MatrixMultiplyMethodBasicFortran")],
       [name |-> <<"b", "a", "s", "i", "c">>,
        callbacks |-> Callbacks(NoHelpToken, "__MatrixMultiplyMethodBasic")] >>


\* the built-in methods in the order __MatrixInitMethodInitialize registers
\* them; "simple-omp" only in a build with OpenMP

InitBuiltIns(HAVE_OPENMP) ==
    << [name |-> <<"f", "i", "l", "e">>,
        callbacks |-> Callbacks(<<"f", "i", "l", "e", "=", "{", "o", "p", "t", "{", ",", ".", ".", "}", ":", "}", "<", "n", "a", "m", "e", ">">>, "__MatrixInitMethodFile")],
       [name |-> <<"r", "a", "n", "d", "o", "m">>,
        callbacks |-> Callbacks(<<"r", "a", "n", "d", "o", "m", "{", "=", "#", "#", "#", "}">>, "__MatrixInitMethodRandom")] >>
    \o (IF HAVE_OPENMP
        THEN << [name |-> <<"s", "i", "m", "p", "l", "e", "-", "o", "m", "p">>,
        callbacks |-> Callbacks(NoHelpToken, "__MatrixInitMethodSimpleOMP")] >>
        ELSE << >>)
    \o
    << [name |-> <<"s", "i", "m", "p", "l", "e">>,
        callbacks |-> Callbacks(NoHelpToken, "__MatrixInitMethodSimple")],
       [name |-> <<"z", "e", "r", "o">>,
        callbacks |-> Callbacks(NoHelpToken, "__MatrixInitMethodZero")],
       [name |-> <<"n", "o", "o", "p">>,
        callbacks |-> Callbacks(NoHelpToken, "__MatrixInitMethodNoop")] >>

\* the names and specifications the callers pass
Name_foo == <<"f", "o", "o">>

Name_Foo == <<"F", "o", "o">>

Name_foo_eq_1 == <<"f", "o", "o", "=", "1">>

Name_basic == <<"b", "a", "s", "i", "c">>

Name_basic_eq_5 == <<"b", "a", "s", "i", "c", "=", "5">>

Name_basic_fortran == <<"b", "a", "s", "i", "c", "-", "f", "o", "r", "t", "r", "a", "n">>

Name_empty == <<>>

\* the names passed to Register and Unregister
Names == {Name_empty, Name_foo, Name_Foo, Name_foo_eq_1, Name_basic}

\* the specifications passed to Lookup
Specifications == Names \cup {Name_basic_eq_5, Name_basic_fortran}

\* the statics of a registry file when the process starts
EmptyRegistry(file, HAVE_OPENMP) ==
    [file |-> file, HAVE_OPENMP |-> HAVE_OPENMP, methods |-> <<>>,
     IsInitialized |-> FALSE, IsInitializing |-> FALSE, initializations |-> 0]

\* a slip: the loop stops at any entry whose name is a leading part of the
\* specification, whatever follows it
LookupMatches_AnyPrefix(mp, name, nameLen) ==
    /\ nameLen >= mp.nameLen
    /\ strncasecmp(mp.name, name, mp.nameLen) = 0

\* the test of the Lookup loop on one list entry
LookupMatches(mp, name, nameLen) ==
    /\ nameLen >= mp.nameLen
    /\ strncasecmp(mp.name, name, mp.nameLen) = 0
    /\ CharAt(name, mp.nameLen) \in {NUL, "="}

\* a slip: the loop keeps the last entry that matches, not the first
FirstMatch_Last(methods, name, nameLen) ==
    LET hits == {i \in 1..Len(methods) : LookupMatches(methods[i], name, nameLen)}
    IN  IF hits = {} THEN 0 ELSE CHOOSE i \in hits : \A j \in hits : i >= j

\* the position in r.methods at which the loop of Lookup stops, 0 for NULL
FirstMatch(methods, name, nameLen) ==
    LET hits == {i \in 1..Len(methods) : LookupMatches(methods[i], name, nameLen)}
    IN  IF hits = {} THEN 0 ELSE CHOOSE i \in hits : \A j \in hits : i <= j

\* malloc() and the fields __MatrixMultiplyMethodAlloc sets; the callbacks are
\* set by the caller
__MatrixMultiplyMethodAlloc(name, mallocOk) ==
    IF strlen(name) > 0 /\ mallocOk
    THEN [canBeUnregistered |-> TRUE, name |-> name, nameLen |-> strlen(name),
          callbacks |-> Callbacks(NoHelpToken, "none")]
    ELSE NULL

RECURSIVE __MatrixMultiplyMethodLookup(_, _, _)
RECURSIVE __MatrixMultiplyMethodRegister(_, _, _, _, _)
RECURSIVE RegisterAll(_, _)
RECURSIVE __MatrixMultiplyMethodInitialize(_)

\* returns the statics after the call and the position of the entry found
\* in their list (0: NULL)
__MatrixMultiplyMethodLookup(r, name, nameLen) ==
    LET r1 == IF ~r.IsInitialized THEN __MatrixMultiplyMethodInitialize(r) ELSE r
        n  == IF nameLen < 1 THEN strlen(name) ELSE nameLen
    IN  [registry |-> r1, mp |-> FirstMatch(r1.methods, name, n)]

\* a slip: the new entry is linked in at the tail of the list
Register_AtTail(r, name, callbacks, canBeUnregistered, mallocOk) ==
    LET found == __MatrixMultiplyMethodLookup(r, name, strlen(name))
        r1    == found.registry
        mp    == __MatrixMultiplyMethodAlloc(name, mallocOk)
    IN  IF found.mp = 0 /\ mp # NULL
        THEN [registry |-> [r1 EXCEPT !.methods =
                               @ \o <<[mp EXCEPT !.callbacks = callbacks,
                                                 !.canBeUnregistered = canBeUnregistered]>>],
              result |-> TRUE]
        ELSE [registry |-> r1, result |-> FALSE]

\* a slip: an entry is refused only when the very same characters are registered
Register_ExactDuplicateOnly(r, name, callbacks, canBeUnregistered, mallocOk) ==
    LET found == __MatrixMultiplyMethodLookup(r, name, strlen(name))
        r1    == found.registry
        mp    == __MatrixMultiplyMethodAlloc(name, mallocOk)
    IN  IF (\A i \in 1..Len(r1.methods) : r1.methods[i].name # name) /\ mp # NULL
        THEN [registry |-> [r1 EXCEPT !.methods =
                               <<[mp EXCEPT !.callbacks = callbacks,
                                            !.canBeUnregistered = canBeUnregistered]>> \o @],
              result |-> TRUE]
        ELSE [registry |-> r1, result |-> FALSE]

\* returns the statics after the call and the boolean result
__MatrixMultiplyMethodRegister(r, name, callbacks, canBeUnregistered, mallocOk) ==
    LET found == __MatrixMultiplyMethodLookup(r, name, strlen(name))
        r1    == found.registry
        mp    == __MatrixMultiplyMethodAlloc(name, mallocOk)
    IN  IF found.mp = 0 /\ mp # NULL
        THEN [registry |-> [r1 EXCEPT !.methods =
                               <<[mp EXCEPT !.callbacks = callbacks,
                                            !.canBeUnregistered = canBeUnregistered]>> \o @],
              result |-> TRUE]
        ELSE [registry |-> r1, result |-> FALSE]

\* the run of __...MethodRegister(name, &callbacks, false) calls of Initialize;
\* their allocations, made when the process starts to use the registry, succeed
RegisterAll(r, builtIns) ==
    IF builtIns = <<>> THEN r
    ELSE RegisterAll(__MatrixMultiplyMethodRegister(r, Head(builtIns).name,
                                                    Head(builtIns).callbacks, FALSE, TRUE).registry,
                     Tail(builtIns))

\* a slip: Initialize does not record that it has run
Initialize_ForgetsInitialized(r) ==
    IF r.IsInitializing THEN r
    ELSE LET r1 == [r EXCEPT !.IsInitializing = TRUE, !.initializations = @ + 1]
             r2 == RegisterAll(r1, IF r.file = "MatrixMultiplyMethod.c"
                                   THEN MultiplyBuiltIns
                                   ELSE InitBuiltIns(r.HAVE_OPENMP))
         IN  [r2 EXCEPT !.IsInitializing = FALSE]

\* __MatrixMultiplyMethodInitialize and __MatrixInitMethodInitialize: the same
\* body over each file's list of built-ins
__MatrixMultiplyMethodInitialize(r) ==
    IF r.IsInitializing THEN r
    ELSE LET r1 == [r EXCEPT !.IsInitializing = TRUE, !.initializations = @ + 1]
             r2 == RegisterAll(r1, IF r.file = "MatrixMultiplyMethod.c"
                                   THEN MultiplyBuiltIns
                                   ELSE InitBuiltIns(r.HAVE_OPENMP))
         IN  [r2 EXCEPT !.IsInitializing = FALSE, !.IsInitialized = TRUE]

MatrixMultiplyMethodRegister(r, name, callbacks, mallocOk) ==
    __MatrixMultiplyMethodRegister(r, name, callbacks, TRUE, mallocOk)

MatrixInitMethodRegister(r, name, callbacks, mallocOk) ==
    __MatrixMultiplyMethodRegister(r, name, callbacks, FALSE, mallocOk)

\* a slip: the flag is not tested
UnregisterTarget_IgnoresFlag(methods, name) ==
    LET hits == {i \in 1..Len(methods) : strcasecmp(methods[i].name, name) = 0}
    IN  IF hits = {} THEN 0 ELSE CHOOSE i \in hits : \A j \in hits : i <= j

\* the position of the entry the loop of Unregister frees, 0 when it ends
\* without freeing any
UnregisterTarget(methods, name) ==
    LET hits == {i \in 1..Len(methods) :
                    methods[i].canBeUnregistered /\ strcasecmp(methods[i].name, name) = 0}
    IN  IF hits = {} THEN 0 ELSE CHOOSE i \in hits : \A j \in hits : i <= j

\* MatrixMultiplyMethodUnregister and MatrixInitMethodUnregister; neither
\* looks at the IsInitialized flag
MatrixMultiplyMethodUnregister(r, name) ==
    LET k == UnregisterTarget(r.methods, name)
    IN  IF k = 0 THEN r
        ELSE [r EXCEPT !.methods = SubSeq(@, 1, k - 1) \o SubSeq(@, k + 1, Len(@))]

\* what the loop of PrintTokenList writes for one entry
DisplayToken(mp) ==
    IF mp.callbacks.helpToken # NoHelpToken THEN mp.callbacks.helpToken ELSE mp.name

\* returns the statics after the call and the tokens written, in order
MatrixMultiplyMethodPrintTokenList(r) ==
    LET r1 == IF ~r.IsInitialized THEN __MatrixMultiplyMethodInitialize(r) ELSE r
    IN  [registry |-> r1, tokens |-> [i \in 1..Len(r1.methods) |-> DisplayToken(r1.methods[i])]]

\* Body of x, for a value x that a function computes once and reads several
\* times (a local variable of the code)
With(x, Body(_)) == Body(x)

(***************************************************************************)
(* The driver's list of selected multiply methods (MultiplyMethodList).    *)
(* The nodes live in a heap: a function from the addresses in use to the   *)
(* nodes at them; address 0 is the NULL pointer.  malloc() hands out the   *)
(* lowest address not in use.                                              *)
(***************************************************************************)
NullNode == 0

\* malloc(): an address that is not in use
FreshAddress(heap) == CHOOSE a \in 1..(Cardinality(DOMAIN heap) + 1) : a \notin DOMAIN heap

\* free(): the heap without the node at address a
Freed(heap, a) == [b \in DOMAIN heap \ {a} |-> heap[b]]

\* returns the heap with the new node in it and the node's address; a failed
\* malloc() makes the caller exit, so only the successful one is followed
__MultiplyMethodListAlloc(heap, name, nameLen) ==
    LET node == FreshAddress(heap)
    IN  [heap |-> [b \in DOMAIN heap \cup {node} |->
                      IF b = node
                      THEN [links |-> [i \in 0..1 |-> NullNode],
                            methodStr |-> SubSeq(name, 1, nameLen),
                            methodStrLen |-> nameLen]
                      ELSE heap[b]],
         node |-> node]

RECURSIVE __MultiplyMethodListDealloc(_, _)
\* returns the heap without the nodes from methodList on
__MultiplyMethodListDealloc(heap, methodList) ==
    IF methodList = NullNode THEN heap
    ELSE __MultiplyMethodListDealloc(Freed(heap, methodList), heap[methodList].links[0])

RECURSIVE __MultiplyMethodListFind(_, _, _, _)
\* returns the address of the first node from methodList on that holds the
\* first nameLen characters of name, without regard to case; NULL if none
__MultiplyMethodListFind(heap, methodList, name, nameLen) ==
    IF methodList = NullNode THEN NullNode
    ELSE IF /\ heap[methodList].methodStrLen = nameLen
            /\ strncasecmp(heap[methodList].methodStr, name, nameLen) = 0
         THEN methodList
         ELSE __MultiplyMethodListFind(heap, heap[methodList].links[0], name, nameLen)

RECURSIVE LastNode(_, _)
\* while ( lastNode && lastNode->links[0] ) lastNode = lastNode->links[0];
LastNode(heap, lastNode) ==
    IF lastNode # NullNode /\ heap[lastNode].links[0] # NullNode
    THEN LastNode(heap, heap[lastNode].links[0])
    ELSE lastNode

\* a slip: the node after foundNode keeps pointing back at it
ListRemove_KeepsBackLink(heap, list, foundNode) ==
    LET next == heap[foundNode].links[0]
        prev == heap[foundNode].links[1]
        h2   == IF prev # NullNode THEN [heap EXCEPT ![prev].links[0] = next] ELSE heap
    IN  [heap |-> Freed(h2, foundNode),
         list |-> IF foundNode = list THEN next ELSE list]

\* the branch of the parser that unlinks and frees foundNode
ListRemove(heap, list, foundNode) ==
    LET next == heap[foundNode].links[0]
        prev == heap[foundNode].links[1]
        h1   == IF next # NullNode THEN [heap EXCEPT ![next].links[1] = prev] ELSE heap
        h2   == IF prev # NullNode THEN [h1 EXCEPT ![prev].links[0] = next] ELSE h1
    IN  [heap |-> Freed(h2, foundNode),
         list |-> IF foundNode = list THEN next ELSE list]

\* a slip: the new node goes in front of the list
ListAppend_AtHead(heap, list, name, nameLen) ==
    LET made == __MultiplyMethodListAlloc(heap, name, nameLen)
    IN  IF list # NullNode
        THEN [heap |-> [made.heap EXCEPT ![list].links[1] = made.node,
                                         ![made.node].links[0] = list],
              list |-> made.node]
        ELSE [heap |-> made.heap, list |-> made.node]

\* the branch of the parser that allocates a node and links it in at the end
ListAppend(heap, list, name, nameLen) ==
    LET made     == __MultiplyMethodListAlloc(heap, name, nameLen)
        lastNode == LastNode(made.heap, list)
    IN  IF lastNode # NullNode
        THEN [heap |-> [made.heap EXCEPT ![lastNode].links[0] = made.node,
                                         ![made.node].links[1] = lastNode],
              list |-> list]
        ELSE [heap |-> made.heap, list |-> made.node]

\* strchr(s, c): how many characters of s come before the first c, Len(s)
\* when there is none (where the code then points at the end of the string)
UpTo(s, c) ==
    IF \E i \in 1..Len(s) : s[i] = c
    THEN (CHOOSE i \in 1..Len(s) : s[i] = c /\ \A j \in 1..(i - 1) : s[j] # c) - 1
    ELSE Len(s)

RECURSIVE JoinTokens(_, _)
\* the tokens with the separator between them
JoinTokens(tokens, sep) ==
    IF tokens = <<>> THEN <<>>
    ELSE IF Len(tokens) = 1 THEN tokens[1]
    ELSE tokens[1] \o <<sep>> \o JoinTokens(Tail(tokens), sep)

RECURSIVE CopyTokens(_, _, _, _)
\* the while loop of MatrixMultiplyMethodCopyTokenList over the entries whose
\* tokens are given, sep being "" before the first.  b.text is the string the
\* caller's buffer holds, b.bufferLen what the loop believes is left of it
\* (below 0: the size_t has wrapped round and every further snprintf() writes
\* past the end of the buffer, which b.overrun records)
CopyTokens(tokens, sep, b, first) ==
    IF tokens = <<>> THEN b
    ELSE LET piece     == (IF first THEN <<>> ELSE <<sep>>) \o Head(tokens)
             actualLen == Len(piece)
             fits      == IF actualLen < b.bufferLen THEN actualLen ELSE b.bufferLen - 1
         IN  CopyTokens(Tail(tokens), sep,
                        [text      |-> IF b.bufferLen > 0
                                       THEN b.text \o SubSeq(piece, 1, fits)
                                       ELSE b.text,
                         bufferLen |-> b.bufferLen - actualLen,
                         totalLen  |-> b.totalLen + actualLen,
                         overrun   |-> b.overrun \/ b.bufferLen < 0],
                        FALSE)

\* returns the statics after the call, the string left in the buffer, the
\* length returned, and whether the call wrote outside the buffer
MatrixMultiplyMethodCopyTokenList(r, bufferLen) ==
    With(IF ~r.IsInitialized THEN __MatrixMultiplyMethodInitialize(r) ELSE r,
         LAMBDA r1 :
    With(CopyTokens([i \in 1..Len(r1.methods) |-> DisplayToken(r1.methods[i])], "|",
                    [text |-> <<>>, bufferLen |-> bufferLen, totalLen |-> 0,
                     overrun |-> FALSE], TRUE),
         LAMBDA copied :
    [registry |-> r1, text |-> copied.text, totalLen |-> copied.totalLen,
     overrun |-> copied.overrun]))

\* sizeof(expectedLength)
ExpectedLength == 256

\* the statics of MatrixMultiplyMethodTokenList before its first call
NoTokenList == [tokenListInited |-> FALSE, text |-> <<>>]

\* returns the statics of the file and of the function after the call, the
\* string returned, and whether the call wrote outside expectedLength;
\* tokenList are the function's statics before it
MatrixMultiplyMethodTokenList(r, tokenList) ==
    IF ~tokenList.tokenListInited
    THEN With(MatrixMultiplyMethodCopyTokenList(r, ExpectedLength), LAMBDA short :
         With(IF short.totalLen >= ExpectedLength
              THEN MatrixMultiplyMethodCopyTokenList(short.registry,
                                                     short.totalLen + 1).text
              ELSE short.text,
              LAMBDA text :
         [registry |-> short.registry,
          tokenList |-> [tokenListInited |-> TRUE, text |-> text],
          text |-> text,
          overrun |-> short.overrun]))
    ELSE [registry |-> r, tokenList |-> tokenList, text |-> tokenList.text,
          overrun |-> FALSE]

\* the loop that turns every '|' of allMethods into ','
BarsToCommas(s) == [i \in 1..Len(s) |-> IF s[i] = "|" THEN "," ELSE s[i]]

Name_all == <<"a", "l", "l">>

RECURSIVE MultiplyMethodListParse(_, _, _, _, _)
RECURSIVE ParseTokens(_, _, _, _, _)

\* the while loop of MultiplyMethodListParse from the position nameList on;
\* r are the statics of MatrixMultiplyMethod.c and tokenList those of
\* MatrixMultiplyMethodTokenList, which the token "all" reads
ParseTokens(heap, list, nameList, r, tokenList) ==
    IF nameList = <<>>
    THEN [heap |-> heap, list |-> list, registry |-> r, tokenList |-> tokenList]
    ELSE
    With(nameList[1] = "-", LAMBDA shouldRemove :
    With(IF nameList[1] \in {"-", "+"} THEN Tail(nameList) ELSE nameList, LAMBDA name :
    With(UpTo(name, ","), LAMBDA length :
    With(SubSeq(name, length + 1, Len(name)), LAMBDA endPtr :
    With(IF length = 3 /\ strncasecmp(name, Name_all, 3) = 0
         THEN LET scrubbed == __MultiplyMethodListDealloc(heap, list)
              IN  IF ~shouldRemove
                  THEN With(MatrixMultiplyMethodTokenList(r, tokenList), LAMBDA cached :
                       With(MatrixMultiplyMethodCopyTokenList(cached.registry,
                                                              strlen(cached.text) + 1),
                            LAMBDA copied :
                       MultiplyMethodListParse(scrubbed, NullNode,
                                               BarsToCommas(copied.text),
                                               copied.registry, cached.tokenList)))
                  ELSE [heap |-> scrubbed, list |-> NullNode, registry |-> r,
                        tokenList |-> tokenList]
         ELSE LET foundNode == __MultiplyMethodListFind(heap, list, name, length)
              IN  IF foundNode # NullNode
                  THEN IF shouldRemove
                       THEN LET removed == ListRemove(heap, list, foundNode)
                            IN  [heap |-> removed.heap, list |-> removed.list,
                                 registry |-> r, tokenList |-> tokenList]
                       ELSE [heap |-> heap, list |-> list, registry |-> r,
                             tokenList |-> tokenList]
                  ELSE IF ~shouldRemove
                       THEN LET added == ListAppend(heap, list, name, length)
                            IN  [heap |-> added.heap, list |-> added.list,
                                 registry |-> r, tokenList |-> tokenList]
                       ELSE [heap |-> heap, list |-> list, registry |-> r,
                             tokenList |-> tokenList],
         LAMBDA done :
    ParseTokens(done.heap, done.list,
                IF endPtr # <<>> /\ endPtr[1] = "," THEN Tail(endPtr) ELSE endPtr,
                done.registry, done.tokenList))))))

\* returns the heap, the new value of *methodList and the statics of
\* MatrixMultiplyMethod.c and of MatrixMultiplyMethodTokenList after the call
MultiplyMethodListParse(heap, methodList, nameList, r, tokenList) ==
    IF nameList # <<>> /\ nameList[1] = "="
    THEN ParseTokens(__MultiplyMethodListDealloc(heap, methodList), NullNode,
                     Tail(nameList), r, tokenList)
    ELSE ParseTokens(heap, methodList, nameList, r, tokenList)

\* if ( *nameList == ',' ) nameList++;
SkipComma(nameList) ==
    IF nameList # <<>> /\ nameList[1] = "," THEN Tail(nameList) ELSE nameList

\* what one loop iteration of MultiplyMethodListParse finds at nameList: the
\* sign, the token's length, endPtr, and the characters before endPtr
TokenAt(nameList) ==
    With(IF nameList[1] \in {"-", "+"} THEN Tail(nameList) ELSE nameList, LAMBDA name :
    With(UpTo(name, ","), LAMBDA length :
    [shouldRemove |-> nameList[1] = "-",
     isAll        |-> length = 3 /\ strncasecmp(name, Name_all, 3) = 0,
     endPtr       |-> SubSeq(name, length + 1, Len(name)),
     piece        |-> SubSeq(nameList, 1, Len(nameList) - (Len(name) - length))]))

\* the activation record of a MultiplyMethodListParse(&methodList, nameList)
\* call when its while loop is first reached: nameList and list are its
\* locals, endPtr is kept for the iteration that is calling, entry is all the
\* call's result depends on
ParseEntered(heap, methodList, nameList, r, tokenList) ==
    With(nameList # <<>> /\ nameList[1] = "=", LAMBDA drop :
    With(IF drop THEN __MultiplyMethodListDealloc(heap, methodList) ELSE heap,
         LAMBDA heap1 :
    [heap  |-> heap1,
     frame |-> [nameList |-> IF drop THEN Tail(nameList) ELSE nameList,
                list     |-> IF drop THEN NullNode ELSE methodList,
                endPtr   |-> <<>>,
                entry    |-> [nameList |-> nameList, list |-> methodList, heap |-> heap,
                              registry |-> r, tokenList |-> tokenList]]]))

RECURSIVE ListFrom(_, _)
\* the method names from node methodList on, following links[0]: what
\* MultiplyMethodListIter hands out one at a time
ListFrom(heap, methodList) ==
    IF methodList = NullNode THEN <<>>
    ELSE <<heap[methodList].methodStr>> \o ListFrom(heap, heap[methodList].links[0])

(***************************************************************************)
(* Method objects (MatrixMultiplyObject, MatrixInitObject) and the         *)
(* callbacks of the built-in methods.  The code of the two files is the    *)
(* same line for line; r.file tells which file's statics r holds.          *)
(*                                                                         *)
(* What a call cannot know beforehand is passed in as w:                   *)
(*   w.mallocOk     malloc() of the object succeeds                        *)
(*   w.allocOk      the alloc callback of a caller's method succeeds       *)
(*   w.openOk       open() of an existing path succeeds                    *)
(*   w.contextOk    malloc() of the file method's context succeeds         *)
(*   w.fileSize     the length in bytes of the file that open() opens      *)
(*   w.readErrorAt  which read() of the call fails (0: none)               *)
(*   w.seekOk       lseek() succeeds                                       *)
(* and the build as b: b.HAVE_DIRECTIO, b.HAVE_BLAS.                       *)
(***************************************************************************)
\* a NULL context pointer
NoContext == [fd |-> -1]

\* the context a caller's alloc callback hands out
CallerContext == [fd |-> -2]

\* no file is open
NoFile == [isOpen |-> FALSE, path |-> <<>>, oflags |-> {}, size |-> 0, offset |-> 0]

\* a NULL object pointer
NoObject == [refCount |-> 0, method |-> NULL, context |-> NoContext]

\* .alloc of the bundle is not NULL
HasAlloc(callbacks) ==
    callbacks.functions \in {"__MatrixInitMethodRandom", "__MatrixInitMethodFile", "caller"}

\* .dealloc of the bundle is not NULL
HasDealloc(callbacks) == callbacks.functions \in {"__MatrixInitMethodFile", "caller"}

\* .multiply or .init of the bundle is not NULL
HasOperate(callbacks) == callbacks.functions # "none"

Opt_sync == <<"s", "y", "n", "c", ",">>

Opt_noatime == <<"n", "o", "a", "t", "i", "m", "e", ",">>

Opt_direct == <<"d", "i", "r", "e", "c", "t", ",">>

\* the test as the README's file=direct:mat needs it: an option counts when
\* ':' follows it, too
FileOptionAhead_OrColon(args, option) ==
    \/ strncasecmp(args, option, Len(option)) = 0
    \/ /\ Len(args) >= Len(option)
       /\ args[Len(option)] = ":"
       /\ strncasecmp(args, option, Len(option) - 1) = 0

\* strncasecmp(args, "<option>,", n) == 0
FileOptionAhead(args, option) == strncasecmp(args, option, Len(option)) = 0

RECURSIVE FileOptions(_, _, _)
\* the while ( 1 ) loop of __MatrixInitMethodFileAlloc: what is left of args
\* when it breaks, and the flags collected
FileOptions(args, oflags, HAVE_DIRECTIO) ==
    IF FileOptionAhead(args, Opt_sync)
    THEN FileOptions(SubSeq(args, Len(Opt_sync) + 1, Len(args)),
                     oflags \cup {"O_SYNC"}, HAVE_DIRECTIO)
    ELSE IF FileOptionAhead(args, Opt_noatime)
    THEN FileOptions(SubSeq(args, Len(Opt_noatime) + 1, Len(args)),
                     oflags \cup {"O_NOATIME"}, HAVE_DIRECTIO)
    ELSE IF HAVE_DIRECTIO /\ FileOptionAhead(args, Opt_direct)
    THEN FileOptions(SubSeq(args, Len(Opt_direct) + 1, Len(args)),
                     oflags \cup {"O_DIRECT"}, HAVE_DIRECTIO)
    ELSE [args |-> args, oflags |-> oflags]

\* returns the callback's result, the context it stored, its open() calls and
\* the file it left open
__MatrixInitMethodFileAlloc(inArgs, w, b) ==
    LET parsed == FileOptions(inArgs, {}, b.HAVE_DIRECTIO)
        colon  == UpTo(parsed.args, ":")
        args   == IF colon < Len(parsed.args)
                  THEN SubSeq(parsed.args, colon + 2, Len(parsed.args))
                  ELSE parsed.args
        opened == w.openOk /\ args # <<>>
    IN  IF parsed.args # <<>>
        THEN [ok      |-> opened /\ w.contextOk,
              context |-> IF opened /\ w.contextOk THEN [fd |-> 3] ELSE NoContext,
              opens   |-> <<[path |-> args, oflags |-> parsed.oflags]>>,
              file    |-> IF opened /\ w.contextOk
                          THEN [isOpen |-> TRUE, path |-> args, oflags |-> parsed.oflags,
                                size |-> w.fileSize, offset |-> 0]
                          ELSE NoFile]
        ELSE [ok |-> FALSE, context |-> NoContext, opens |-> <<>>, file |-> NoFile]

\* sets the seed of random() and stores no context
__MatrixInitMethodRandomAlloc(inArgs) ==
    [ok |-> TRUE, context |-> NoContext, opens |-> <<>>, file |-> NoFile]

\* mp->callbacks.alloc(inArgs, &newObj->context)
AllocCallback(callbacks, inArgs, w, b) ==
    CASE callbacks.functions = "__MatrixInitMethodFile" ->
            __MatrixInitMethodFileAlloc(inArgs, w, b)
      [] callbacks.functions = "__MatrixInitMethodRandom" ->
            __MatrixInitMethodRandomAlloc(inArgs)
      [] OTHER ->
            [ok |-> w.allocOk, context |-> IF w.allocOk THEN CallerContext ELSE NoContext,
             opens |-> <<>>, file |-> NoFile]

\* a slip: alloc is handed the text that follows the entry's name and '='
CreateArgs_AfterName(specification, mp) ==
    IF Len(specification) > mp.nameLen
    THEN SubSeq(specification, mp.nameLen + 2, Len(specification))
    ELSE <<>>

\* strchr(specification, '=') and the choice between args + 1 and ""
CreateArgs(specification, mp) ==
    LET args == UpTo(specification, "=")
    IN  IF args < Len(specification)
        THEN SubSeq(specification, args + 2, Len(specification))
        ELSE <<>>

\* returns the statics after the call, the object returned (NoObject for
\* NULL), the alloc calls made (inArgs and result), the open() calls made, the
\* file left open, whether an object was allocated and freed again, and
\* whether malloc() of the object failed
MatrixMultiplyObjectCreate(r, specification, w, b) ==
    With(__MatrixMultiplyMethodLookup(r, specification, strlen(specification)),
         LAMBDA looked :
    With([registry |-> looked.registry, newObj |-> NoObject, allocs |-> <<>>,
          opens |-> <<>>, file |-> NoFile, freed |-> FALSE,
          noMemory |-> looked.mp # 0 /\ ~w.mallocOk],
         LAMBDA nothing :
    IF looked.mp # 0 /\ w.mallocOk
    THEN With(looked.registry.methods[looked.mp], LAMBDA mp :
         With(CreateArgs(specification, mp), LAMBDA inArgs :
         With(AllocCallback(mp.callbacks, inArgs, w, b), LAMBDA made :
         IF HasAlloc(mp.callbacks)
         THEN [registry |-> looked.registry,
               newObj   |-> IF made.ok
                            THEN [refCount |-> 1, method |-> mp, context |-> made.context]
                            ELSE NoObject,
               allocs   |-> <<[inArgs |-> inArgs, ok |-> made.ok]>>,
               opens    |-> made.opens,
               file     |-> made.file,
               freed    |-> ~made.ok,
               noMemory |-> FALSE]
         ELSE [nothing EXCEPT !.newObj = [refCount |-> 1, method |-> mp,
                                          context |-> NoContext]])))
    ELSE nothing))

MatrixInitObjectCreate(r, specification, w, b) ==
    MatrixMultiplyObjectCreate(r, specification, w, b)

MatrixMultiplyObjectRetain(matMulObj) == [matMulObj EXCEPT !.refCount = @ + 1]

MatrixInitObjectRetain(initObj) == MatrixMultiplyObjectRetain(initObj)

\* a slip: the callback runs at every release
ReleaseDeallocs_Always(matMulObj, refCount) == HasDealloc(matMulObj.method.callbacks)

\* whether the dealloc callback runs, refCount being the count after --
ReleaseDeallocs(matMulObj, refCount) ==
    refCount = 0 /\ HasDealloc(matMulObj.method.callbacks)

\* returns the object after the call, whether it was freed, the contexts the
\* dealloc callback was called with, and the file left open
MatrixMultiplyObjectRelease(matMulObj, file) ==
    LET refCount == matMulObj.refCount - 1
        deallocs == ReleaseDeallocs(matMulObj, refCount)
    IN  [obj      |-> [matMulObj EXCEPT !.refCount = refCount],
         freed    |-> refCount = 0,
         deallocs |-> IF deallocs THEN <<matMulObj.context>> ELSE <<>>,
         file     |-> IF deallocs /\ matMulObj.method.callbacks.functions = "__MatrixInitMethodFile"
                      THEN NoFile ELSE file]

MatrixInitObjectRelease(initObj, file) == MatrixMultiplyObjectRelease(initObj, file)

\* MatrixMultiplyObjectGetName and MatrixInitObjectGetName
MatrixMultiplyObjectGetName(matMulObj) == matMulObj.method.name

\* a block that free() took back and malloc() handed out again, as
\* __MatrixMultiplyMethodAlloc leaves the entry it builds in it
RecycledEntry == __MatrixMultiplyMethodAlloc(<<"?">>, TRUE)

\* the entry the object points to is one of the registry's list
EntryPresent(r, matMulObj) == \E i \in 1..Len(r.methods) : r.methods[i] = matMulObj.method

\* what reading *matMulObj->matMulMethod may yield: the entry while it is in
\* the list; once Unregister has freed it, the bytes it had or those of the
\* block's next owner
EntryReads(r, matMulObj) ==
    IF EntryPresent(r, matMulObj) THEN {matMulObj.method}
    ELSE {matMulObj.method, RecycledEntry}

\* sizeof(f_real), f_real being a double
SizeofReal == 8

\* read(fd, &M[..], sizeof(f_real)), the nth read of the call: the byte count
\* returned (-1 for an error) and the file afterwards
Read(file, nth, w) ==
    LET left   == file.size - file.offset
        actual == IF nth = w.readErrorAt THEN -1
                  ELSE IF left < SizeofReal THEN left ELSE SizeofReal
    IN  [actual |-> actual,
         file   |-> IF actual > 0 THEN [file EXCEPT !.offset = @ + actual] ELSE file]

\* actual < sizeof(f_real), actual an ssize_t: the comparison is made in
\* size_t, where a negative actual is above every size
LessThanSizeof(actual) == actual >= 0 /\ actual < SizeofReal

\* a slip: the file is rewound a second time when the retry comes short, too
Retry_RewindsAgain(file, nth, w) ==
    LET again == Read([file EXCEPT !.offset = 0], nth, w)
        third == Read([again.file EXCEPT !.offset = 0], nth + 1, w)
    IN  IF LessThanSizeof(again.actual)
        THEN [actual |-> third.actual, file |-> third.file, reads |-> 2, rewinds |-> 2]
        ELSE [actual |-> again.actual, file |-> again.file, reads |-> 1, rewinds |-> 1]

\* the lseek() that succeeded and the read() after it, the nth of the call:
\* the byte count of that read, the file afterwards, and the reads and
\* rewinds made
Retry(file, nth, w) ==
    LET again == Read([file EXCEPT !.offset = 0], nth, w)
    IN  [actual |-> again.actual, file |-> again.file, reads |-> 1, rewinds |-> 1]

RECURSIVE FileInitLoop(_, _, _, _, _)
\* the two for loops of __MatrixInitMethodFileInit from element k on (k counts
\* i * n + j).  done.perElement holds, for every element handled: the byte
\* count of the first read into it, the lseek() calls made for it and whether
\* one failed, the reads made after a rewind, and the byte count of the last
\* read into it
FileInitLoop(k, n, file, w, done) ==
    IF k = n * n THEN [ok |-> TRUE, file |-> file, reads |-> done.reads,
                       perElement |-> done.perElement]
    ELSE LET first   == Read(file, done.reads + 1, w)
             short   == LessThanSizeof(first.actual)
             rewound == short /\ w.seekOk
             retried == Retry(first.file, done.reads + 2, w)
             actual  == IF rewound THEN retried.actual ELSE first.actual
             after   == IF rewound THEN retried.file ELSE first.file
             reads   == done.reads + 1 + (IF rewound THEN retried.reads ELSE 0)
             element == [first      |-> first.actual,
                         rewinds    |-> IF rewound THEN retried.rewinds
                                        ELSE IF short THEN 1 ELSE 0,
                         seekFailed |-> short /\ ~w.seekOk,
                         retries    |-> IF rewound THEN retried.reads ELSE 0,
                         last       |-> actual]
             log     == [reads |-> reads, perElement |-> Append(done.perElement, element)]
         IN  IF (short /\ ~w.seekOk) \/ actual # SizeofReal
             THEN [ok |-> FALSE, file |-> after, reads |-> reads,
                   perElement |-> log.perElement]
             ELSE FileInitLoop(k + 1, n, after, w, log)

\* the test as the headers' Start/Stop rule needs it: the timer is stopped
\* before a failing return, too
FileInitStops_Always(ok) == TRUE

\* whether the call reaches its ExecutionTimerStop
FileInitStops(ok) == ok

\* returns the callback's result, the timer and the file after the call, and
\* what the loop did
__MatrixInitMethodFileInit(file, timer, now, n, w) ==
    With(ExecutionTimerStart(timer, now), LAMBDA started :
    With(FileInitLoop(0, n, file, w, [reads |-> 0, perElement |-> <<>>]), LAMBDA looped :
    [ok |-> looped.ok,
     timer |-> IF FileInitStops(looped.ok) THEN ExecutionTimerStop(started, now)
               ELSE started,
     file |-> looped.file, reads |-> looped.reads, perElement |-> looped.perElement,
     starts |-> 1, stops |-> IF FileInitStops(looped.ok) THEN 1 ELSE 0]))

\* the built-in callbacks that start the timer, fill or multiply, stop the
\* timer and return true
Timed(file, timer, now) ==
    [ok |-> TRUE, timer |-> ExecutionTimerStop(ExecutionTimerStart(timer, now), now),
     file |-> file, reads |-> 0, perElement |-> <<>>, starts |-> 1, stops |-> 1]

\* timed only in a build with HAVE_BLAS
__MatrixMultiplyMethodBLASMultiply(file, timer, now, b) ==
    IF b.HAVE_BLAS THEN Timed(file, timer, now)
    ELSE [ok |-> TRUE, timer |-> timer, file |-> file, reads |-> 0, perElement |-> <<>>,
          starts |-> 0, stops |-> 0]

\* callbacks.init(context, timer, nthreads, n, M) and
\* callbacks.multiply(context, timer, nthreads, n, alpha, A, B, beta, C)
OperateCallback(callbacks, file, timer, now, n, w, b) ==
    CASE callbacks.functions = "__MatrixInitMethodFile" ->
            __MatrixInitMethodFileInit(file, timer, now, n, w)
      [] callbacks.functions = "__MatrixMultiplyMethodBLAS" ->
            __MatrixMultiplyMethodBLASMultiply(file, timer, now, b)
      [] OTHER -> Timed(file, timer, now)

\* returns what the method's callback returns, false for a method without one
MatrixMultiplyObjectMultiply(matMulObj, file, timer, now, n, w, b) ==
    IF HasOperate(matMulObj.method.callbacks)
    THEN OperateCallback(matMulObj.method.callbacks, file, timer, now, n, w, b)
    ELSE [ok |-> FALSE, timer |-> timer, file |-> file, reads |-> 0, perElement |-> <<>>,
          starts |-> 0, stops |-> 0]

MatrixInitObjectInit(initObj, file, timer, now, n, w, b) ==
    MatrixMultiplyObjectMultiply(initObj, file, timer, now, n, w, b)

(***************************************************************************)
(* The driver's main.                                                      *)
(***************************************************************************)
\* the value of errno.h's EINVAL that main hands to exit()
(***************************************************************************)
(* The OpenMP callbacks: a parallel region with one worksharing loop over  *)
(* the rows, between the driver thread's ExecutionTimerStart and           *)
(* ExecutionTimerStop.                                                     *)
(***************************************************************************)
\* the thread that calls the callback; it is thread 0 of the team it forks
MasterThread == 0

\* the team of a parallel region of nthreads threads
Team(nthreads) == 0..(nthreads - 1)

\* for ( i = 0; i < n; i++ ) / do i=1,n: the iterations of the worksharing loop
Rows(n) == 0..(n - 1)

\* the iterations a thread of the team has still to run
RowsLeft(rowsOf, written, t) == {i \in DOMAIN rowsOf : rowsOf[i] = t} \ written

\* a slip: the master thread goes on as soon as it has run out of iterations
RegionJoined_MasterOnly(team, arrived) == MasterThread \in arrived

\* the implicit barrier at the end of the parallel region: the master thread
\* goes on when every thread of the team has arrived
RegionJoined(team, arrived) == team \subseteq arrived

(***************************************************************************)
(* The Fortran interface of ExecutionTimer.c: a static table that maps     *)
(* integer ids to ExecutionTimerRef values.                                *)
(***************************************************************************)
EXECUTIONTIMER_FORTRAN_MAX_INSTANCES == 8

\* the indices of ExecutionTimerFortranInstances
FortranSlots == 0..(EXECUTIONTIMER_FORTRAN_MAX_INSTANCES - 1)

\* a NULL ExecutionTimerRef
NullTimerRef == [refCount |-> 0]

\* memset(&ExecutionTimerFortranInstances[0], 0, ...), also the array as loaded
ZeroedInstances == [i \in FortranSlots |-> NullTimerRef]

\* HUGE_VAL and HUGE_VALF are the positive infinity of their type
HUGE_VAL == INFINITY

\* a slip: the slot is taken whatever it holds
SlotIsFree_Always(instances, i) == TRUE

\* ExecutionTimerFortranInstances[i] == NULL
SlotIsFree(instances, i) == instances[i] = NullTimerRef

\* the while loop of executiontimer_create entered at i, when the next `fails`
\* calls of ExecutionTimerCreate return NULL
RECURSIVE FortranCreateLoop(_, _, _)
FortranCreateLoop(instances, i, fails) ==
    IF i < EXECUTIONTIMER_FORTRAN_MAX_INSTANCES
    THEN IF SlotIsFree(instances, i)
         THEN IF fails = 0
              THEN [instances |->
                        [instances EXCEPT
                            ![i] = ExecutionTimerCreate(
                                      CHOOSE mem \in UninitializedMemory : mem.refCount = 0)],
                    result |-> i]
              ELSE FortranCreateLoop(instances, i + 1, fails - 1)
         ELSE FortranCreateLoop(instances, i + 1, fails)
    ELSE [instances |-> instances, result |-> -1]

executiontimer_create(ready, instances, fails) ==
    With(FortranCreateLoop(IF ready THEN instances ELSE ZeroedInstances, 0, fails),
         LAMBDA made : [ready |-> TRUE, instances |-> made.instances,
                        result |-> made.result])

\* the two nested ifs of destroy, reset, start, stop and getvalue
HasInstance(ready, instances, i) ==
    /\ ready
    /\ i >= 0
    /\ i < EXECUTIONTIMER_FORTRAN_MAX_INSTANCES
    /\ instances[i] # NullTimerRef

\* released: the timer as ExecutionTimerRelease left it, when it was called
executiontimer_destroy(ready, instances, timer_id) ==
    IF HasInstance(ready, instances, timer_id)
    THEN [instances |-> [instances EXCEPT ![timer_id] = NullTimerRef],
          released |-> <<ExecutionTimerRelease(instances[timer_id])>>,
          timer_id |-> -1]
    ELSE [instances |-> instances, released |-> <<>>, timer_id |-> -1]

executiontimer_reset(ready, instances, timer_id) ==
    IF HasInstance(ready, instances, timer_id)
    THEN [instances EXCEPT ![timer_id] = ExecutionTimerReset(@)]
    ELSE instances

executiontimer_start(ready, instances, timer_id, now) ==
    IF HasInstance(ready, instances, timer_id)
    THEN [instances EXCEPT ![timer_id] = ExecutionTimerStart(@, now)]
    ELSE instances

executiontimer_stop(ready, instances, timer_id, now) ==
    IF HasInstance(ready, instances, timer_id)
    THEN [instances EXCEPT ![timer_id] = ExecutionTimerStop(@, now)]
    ELSE instances

executiontimer_getvalue(ready, instances, timer_id, metric_id, value_id) ==
    With(IF HasInstance(ready, instances, timer_id)
         THEN ExecutionTimerGetValue(instances[timer_id], metric_id, value_id)
         ELSE INFINITY,
         LAMBDA v : IF v = INFINITY THEN HUGE_VAL ELSE v)

\* enum ExecutionTimerOutputFormat
ExecutionTimerOutputFormatTable == 0

ExecutionTimerOutputFormatCSV == 1

ExecutionTimerOutputFormatTSV == 2

ExecutionTimerOutputFormatJSON == 3

ExecutionTimerOutputFormatYAML == 4

ExecutionTimerOutputFormatMax == 5

ExecutionTimerOutputFormatInvalid == 6

\* a NULL const char*
NullString == <<"NULL">>

\* the array's five strings; its entry [format] is the tuple's entry format + 1
__ExecutionTimerOutputFormatStrings ==
    << <<"t", "a", "b", "l", "e">>, <<"c", "s", "v">>, <<"t", "s", "v">>,
       <<"j", "s", "o", "n">>, <<"y", "a", "m", "l">> >>

DEFAULT_OUTPUT_FORMAT == <<"t", "a", "b", "l", "e">>

FormatMatches_CaseSensitive(s, format) == s = __ExecutionTimerOutputFormatStrings[format + 1]

\* the test of the while loop's if
FormatMatches(s, format) ==
    strcasecmp(s, __ExecutionTimerOutputFormatStrings[format + 1]) = 0

\* the while loop of ExecutionTimerOutputFormatParse, entered with format
RECURSIVE FormatParseLoop(_, _)
FormatParseLoop(s, format) ==
    IF format < ExecutionTimerOutputFormatMax
    THEN IF FormatMatches(s, format) THEN format ELSE FormatParseLoop(s, format + 1)
    ELSE ExecutionTimerOutputFormatInvalid

ExecutionTimerOutputFormatParse(s) ==
    IF s = NullString \/ s = <<>>
    THEN ExecutionTimerOutputFormatTable
    ELSE FormatParseLoop(s, ExecutionTimerOutputFormatTable)

ExecutionTimerOutputFormatToString(format) ==
    IF format < ExecutionTimerOutputFormatMax
    THEN __ExecutionTimerOutputFormatStrings[format + 1]
    ELSE NullString

EINVAL == 22

DEFAULT_NLOOP == 4

DEFAULT_INIT_METHOD == <<"n", "o", "o", "p">>

\* the matrix dimension of the runs, as -n 2 sets it
Dimension == 2

\* a slip: the iteration follows links[1], towards the head
MultiplyMethodListIter_Backwards(heap, iterMethodList) ==
    IF iterMethodList # NullNode
    THEN [next |-> heap[iterMethodList].links[1],
          methodStr |-> heap[iterMethodList].methodStr]
    ELSE [next |-> iterMethodList, methodStr |-> <<>>]

\* returns the node after iterMethodList and the name of iterMethodList
MultiplyMethodListIter(heap, iterMethodList) ==
    IF iterMethodList # NullNode
    THEN [next |-> heap[iterMethodList].links[0],
          methodStr |-> heap[iterMethodList].methodStr]
    ELSE [next |-> iterMethodList, methodStr |-> <<>>]

\* a slip: the three init calls are all made whatever they return
InitCallsMade_All(okA, okB) == 3

\* the init calls that  !Init(A) || !Init(B) || !Init(C)  makes
InitCallsMade(okA, okB) == IF ~okA THEN 1 ELSE IF ~okB THEN 2 ELSE 3

\* one pass of the body of main's for loop: the init calls on A, B and C and
\* the multiply call, up to the first that returns false.  Returns what each
\* call made returned, both timers and the file after them, and the ERROR
\* printed ("" for none).
LoopBody(initObj, multObj, file, initTimer, mulTimer, now, n, w, b) ==
    With(MatrixInitObjectInit(initObj, file, initTimer, now, n, w, b), LAMBDA onA :
    With(MatrixInitObjectInit(initObj, onA.file, onA.timer, now, n, w, b), LAMBDA onB :
    With(MatrixInitObjectInit(initObj, onB.file, onB.timer, now, n, w, b), LAMBDA onC :
    With(InitCallsMade(onA.ok, onB.ok), LAMBDA made :
    With(SubSeq(<<onA, onB, onC>>, 1, made), LAMBDA inits :
    With(MatrixMultiplyObjectMultiply(multObj, inits[made].file, mulTimer, now, n, w, b),
         LAMBDA product :
    IF \E i \in 1..made : ~inits[i].ok
    THEN [initOks |-> [i \in 1..made |-> inits[i].ok], multiplyOks |-> <<>>,
          initTimer |-> inits[made].timer, mulTimer |-> mulTimer,
          file |-> inits[made].file, error |-> "failure in iteration of init method"]
    ELSE [initOks |-> [i \in 1..made |-> inits[i].ok], multiplyOks |-> <<product.ok>>,
          initTimer |-> inits[made].timer, mulTimer |-> product.timer,
          file |-> product.file,
          error |-> IF product.ok THEN ""
                    ELSE "failure in iteration of multiplication method"]))))))

(***************************************************************************)
(* State.  Spec is one ExecutionTimer under any order of the public calls, *)
(* with the process's clock running; SpecDatum (further down) is one       *)
(* ExecutionTimerDatum under direct calls.                                 *)
(*   timer, allocated  the ExecutionTimer block and whether it is live     *)
(*   env, ticks        the process's clock and usage, and the steps taken  *)
(*   shadow            a timer created afresh at the latest Create or      *)
(*                     Reset and given the same Start/Stop calls since     *)
(*   lastOp ... openAtReset   history of the calls made on timer, kept     *)
(*                     from the calls alone, never read from timer:        *)
(*     lastOp          the latest of Create, Start, Stop, Reset            *)
(*     consecStarts    Starts in a row up to now (2 stands for 2 or more)  *)
(*     cyclesDone      Stops that followed a Start, since Create or Reset  *)
(*     lastStartNow    the clock and usage at the latest Start             *)
(*     sampleStarts    consecStarts at the latest Stop that followed one   *)
(*     lastSample      what passed between the latest Start and that Stop  *)
(*     resetSeen       a Reset was made since Create                       *)
(*     openAtReset     the latest Reset came right after a Start           *)
(*     releasesOverRetains   Release calls less Retain calls since Create  *)
(*   acc ... accArg    one ExecutionTimerDatum driven directly (SpecDatum) *)
(***************************************************************************)
VARIABLES timer, allocated, env, ticks, shadow,
          lastOp, consecStarts, cyclesDone, lastStartNow, sampleStarts, resetSeen,
          lastSample, openAtReset, releasesOverRetains,
          acc, accN, accCalls, accInSeq, accHist, accArg

timerVars == <<timer, allocated, env, ticks, shadow,
               lastOp, consecStarts, cyclesDone, lastStartNow, sampleStarts, resetSeen,
               lastSample, openAtReset, releasesOverRetains>>

datumVars == <<acc, accN, accCalls, accInSeq, accHist, accArg>>

(***************************************************************************)
(* SpecRegistry (further down): the two registries of one process under    *)
(* any order of the public calls, each call made on both registries with   *)
(* the same arguments.                                                     *)
(*   multiplyStatics, initStatics   the statics of MatrixMultiplyMethod.c  *)
(*                     and of MatrixInitMethod.c                           *)
(*   regOp, regArg, regMallocOk     the latest call, its name argument and *)
(*                     whether its malloc() (if it made one) succeeded     *)
(*   regResult         what that call returned from each registry          *)
(*   regPlainSoFar     every call so far passed a plain name: one that is  *)
(*                     not empty and that no built-in of either file       *)
(*                     matches                                             *)
(***************************************************************************)
VARIABLES multiplyStatics, initStatics, regOp, regArg, regMallocOk, regResult,
          regPlainSoFar

registryVars == <<multiplyStatics, initStatics, regOp, regArg, regMallocOk, regResult,
                  regPlainSoFar>>

(***************************************************************************)
(* SpecList (further down): the driver's list of selected multiply methods *)
(* under any succession of MultiplyMethodListParse calls, as main makes    *)
(* one for the default and one for every --routines option.                *)
(*   listHeap          the MultiplyMethodList nodes allocated              *)
(*   multiplyMethods   main's pointer to the first node                    *)
(*   tokenListStatics  the statics of MatrixMultiplyMethodTokenList        *)
(*   listArg           the nameList of the latest call                     *)
(*   listBefore        the names in the list when the latest call began    *)
(*   parses            the calls made                                      *)
(***************************************************************************)
VARIABLES listHeap, multiplyMethods, tokenListStatics, listArg, listBefore, parses

listVars == <<listHeap, multiplyMethods, tokenListStatics, listArg, listBefore, parses>>

(***************************************************************************)
(* SpecObject (further down): one method object at a time, of either file, *)
(* under any order of the public calls, with timer as the timer handed to  *)
(* its method.                                                             *)
(*   buildConfig    the build: HAVE_DIRECTIO, HAVE_BLAS                    *)
(*   obj, objLive   the object block and whether it is allocated           *)
(*   objOf          the registry the object was created from               *)
(*   objFile        the file the file method's context holds open          *)
(*   objOp, objArg  the latest call and its specification (Create) or name *)
(*                  (Register)                                             *)
(*   objCalls       the callback and open() calls of the latest call       *)
(*   objDeallocs    dealloc callback calls since the latest Create         *)
(*   objRetains, objReleases   Retain and Release calls since then         *)
(*   objRan         what the latest call did, if an Init or Multiply call  *)
(***************************************************************************)
VARIABLES buildConfig, obj, objLive, objOf, objFile, objOp, objArg, objCalls,
          objDeallocs, objRetains, objReleases, objRan

objectVars == <<buildConfig, obj, objLive, objOf, objFile, objOp, objArg, objCalls,
                objDeallocs, objRetains, objReleases, objRan>>

(***************************************************************************)
(* SpecMain (further down): one run of the driver's main, with timer as    *)
(* its matMulTimer and objFile as the file its init method holds open.     *)
(*   mainPc         where main is: "start", "options" (in the getopt       *)
(*                  loop), "methods" (at the test of the while loop over   *)
(*                  the list), "loop" (at the test of the for loop),       *)
(*                  "exit" (the process has ended)                         *)
(*   initMethod, nloop, matInitTimer, matrixInitMethod,                    *)
(*   iterMultiplyMethods, multMethod, loop     main's locals               *)
(*   optionsSeen    the command-line options read                          *)
(*   nloopAsked     the k of the latest -l k on the command line, 0 if     *)
(*                  there was none                                         *)
(*   mainCall       the latest step: its kind, the method name it passed   *)
(*                  to Create and what Create returned, what each Init     *)
(*                  and Multiply call it made returned                     *)
(*   inits, multiplies   Init and Multiply calls made so far               *)
(*   summaries      the timing summaries printed: whose, under which name  *)
(*                  and the timer's cycleCount then                        *)
(*   exitStatus     the status the process ended with                      *)
(*   errorPrinted   the ERROR message written, "" if none                  *)
(***************************************************************************)
VARIABLES mainPc, initMethod, nloop, optionsSeen, nloopAsked, matInitTimer,
          matrixInitMethod, iterMultiplyMethods, multMethod, loop, mainCall,
          inits, multiplies, summaries, exitStatus, errorPrinted, timerOutputFormat,
          formatCall

\* the statics of the Fortran interface and, of its last call, what was passed
\* and returned
VARIABLES ExecutionTimerFortranInstancesReady, ExecutionTimerFortranInstances,
          fortranLive, fortranCall, fortranOps

fortranVars == <<ExecutionTimerFortranInstancesReady, ExecutionTimerFortranInstances,
                 fortranLive, fortranCall, fortranOps>>

\* a call of an OpenMP callback: where the calling thread is, the team of the
\* parallel region, its iterations, and the last call made on the timer
VARIABLES ompPc, ompCallback, ompNumThreads, ompN, ompTeam, ompRowsOf, ompWritten,
          ompArrived, ompTimerCall

ompVars == <<ompPc, ompCallback, ompNumThreads, ompN, ompTeam, ompRowsOf, ompWritten,
             ompArrived, ompTimerCall>>

\* what the last GetName call on the method object returned
VARIABLES objName

handleVars == <<objName>>

\* of the last CopyTokenList or TokenList call: the buffer size, the string left
\* in the buffer, the length returned, whether it wrote outside the buffer
VARIABLES copyCall

tokenVars == <<copyCall>>

\* where a MultiplyMethodListParse call followed one loop iteration at a time
\* is, and its activation records, the outermost first
VARIABLES parsePc, parseFrames

parseVars == <<parsePc, parseFrames>>

\* what main never touches
besideMain == <<fortranVars, ompVars, handleVars, tokenVars, parseVars>>

\* what main works on
mainOwnVars == <<mainPc, initMethod, nloop, optionsSeen, nloopAsked, matInitTimer,
                 matrixInitMethod, iterMultiplyMethods, multMethod, loop, mainCall,
                 inits, multiplies, summaries, exitStatus, errorPrinted,
                 timerOutputFormat, formatCall>>

mainVars == <<mainPc, initMethod, nloop, optionsSeen, nloopAsked, matInitTimer,
              matrixInitMethod, iterMultiplyMethods, multMethod, loop, mainCall,
              inits, multiplies, summaries, exitStatus, errorPrinted,
              timerOutputFormat, formatCall, besideMain>>

driverVars == <<listVars, objectVars, mainVars>>

vars == <<timerVars, datumVars, registryVars, driverVars>>

\* a struct timespec or timeval in half seconds
HalfSeconds(t, unitsPerSec) == 2 * t.sec + (t.sub \div (unitsPerSec \div 2))

\* what the process spent of metric m between two instants, in the metric's unit
\* (seconds, or a count); the peak resident size is that of the later instant
Spent(from, to, m) ==
    CASE m = ExecutionTimerMetricWalltime ->
            Fin(HalfSeconds(to.time, NSEC_PER_SEC)
                    - HalfSeconds(from.time, NSEC_PER_SEC), 2)
      [] m = ExecutionTimerMetricUserCPU ->
            Fin(HalfSeconds(to.usage.ru_utime, USEC_PER_SEC)
                    - HalfSeconds(from.usage.ru_utime, USEC_PER_SEC), 2)
      [] m = ExecutionTimerMetricSystemCPU ->
            Fin(HalfSeconds(to.usage.ru_stime, USEC_PER_SEC)
                    - HalfSeconds(from.usage.ru_stime, USEC_PER_SEC), 2)
      [] m = ExecutionTimerMetricMaxRSS -> D(to.usage.ru_maxrss)
      [] m = ExecutionTimerMetricNSwaps ->
            D(to.usage.ru_nswap - from.usage.ru_nswap)
      [] m = ExecutionTimerMetricIOBlocksIn ->
            D(to.usage.ru_inblock - from.usage.ru_inblock)
      [] m = ExecutionTimerMetricIOBlocksOut ->
            D(to.usage.ru_oublock - from.usage.ru_oublock)

\* no sample recorded yet
NoSample == [m \in Metrics |-> D(0)]

\* the block after free(): no call may touch it
FreedBlock == CHOOSE mem \in UninitializedMemory : mem.refCount = 0

FreshTimers == {ExecutionTimerCreate(mem) : mem \in UninitializedMemory}

\* no call made yet on the datum
DatumIdle ==
    /\ acc = ExecutionTimerDatumReset(JunkDatum)
    /\ accN = 0
    /\ accCalls = 0
    /\ accInSeq = TRUE
    /\ accHist = <<>>
    /\ accArg = 0

\* no call made yet on either registry
RegistryIdle ==
    /\ multiplyStatics = EmptyRegistry("MatrixMultiplyMethod.c", TRUE)
    /\ initStatics = EmptyRegistry("MatrixInitMethod.c", TRUE)
    /\ regOp = "none"
    /\ regArg = Name_empty
    /\ regMallocOk = TRUE
    /\ regResult = [multiply |-> FALSE, init |-> FALSE]
    /\ regPlainSoFar = TRUE

\* nothing stands in the way of a call
CalmWorld ==
    [mallocOk |-> TRUE, allocOk |-> TRUE, openOk |-> TRUE, contextOk |-> TRUE,
     fileSize |-> 2 * SizeofReal, readErrorAt |-> 0, seekOk |-> TRUE]

NoCalls == [allocs |-> <<>>, deallocs |-> <<>>, opens |-> <<>>, returned |-> NoObject,
            freed |-> FALSE, noMemory |-> FALSE]

NoRun == [ok |-> FALSE, n |-> 0, cyclesBefore |-> 0, startedBefore |-> FALSE,
          starts |-> 0, stops |-> 0, reads |-> 0, perElement |-> <<>>]

\* no method object was created yet
ObjectIdle ==
    /\ obj = NoObject
    /\ objLive = FALSE
    /\ objOf = "multiply"
    /\ objFile = NoFile
    /\ objOp = "none"
    /\ objArg = <<>>
    /\ objCalls = NoCalls
    /\ objDeallocs = 0
    /\ objRetains = 0
    /\ objReleases = 0
    /\ objRan = NoRun

\* main has not parsed any method list yet
ListIdle ==
    /\ listHeap = << >>
    /\ multiplyMethods = NullNode
    /\ tokenListStatics = NoTokenList
    /\ listArg = << >>
    /\ listBefore = << >>
    /\ parses = 0

NoMainCall == [kind |-> "none", name |-> <<>>, returned |-> NoObject,
               initOks |-> <<>>, multiplyOks |-> <<>>]

\* no call of the Fortran interface has been made
NoFortranCall == [op |-> "none", timer_id |-> -1, idAfter |-> -1, result |-> -1,
                  value |-> HUGE_VAL, fails |-> 0, liveBefore |-> {}, changed |-> {},
                  released |-> <<>>]

FortranIdle ==
    /\ ExecutionTimerFortranInstancesReady = FALSE
    /\ ExecutionTimerFortranInstances = ZeroedInstances
    /\ fortranLive = {}
    /\ fortranCall = NoFortranCall
    /\ fortranOps = 0

\* no CopyTokenList call has been made
NoCopyCall == [op |-> "none", of |-> "multiply", bufferLen |-> 0, text |-> <<>>,
               totalLen |-> 0, overrun |-> FALSE]

\* no OpenMP callback has been called; omp_set_num_threads(1) was main's call
OmpIdle ==
    /\ ompPc = "idle"
    /\ ompCallback = ""
    /\ ompNumThreads = 1
    /\ ompN = 0
    /\ ompTeam = {}
    /\ ompRowsOf = <<>>
    /\ ompWritten = {}
    /\ ompArrived = {}
    /\ ompTimerCall = [op |-> "none", thread |-> MasterThread, running |-> {}]

\* no -f option has been handled
NoFormatCall == [optarg |-> NullString, newFormat |-> ExecutionTimerOutputFormatInvalid,
                 before |-> ExecutionTimerOutputFormatInvalid, warned |-> FALSE]

\* main has not begun; timerOutputFormat is assigned by main's first statements
\* and not read before
MainIdle ==
    /\ mainPc = "start"
    /\ initMethod = DEFAULT_INIT_METHOD
    /\ nloop = DEFAULT_NLOOP
    /\ optionsSeen = 0
    /\ nloopAsked = 0
    /\ matInitTimer =
          ExecutionTimerCreate(CHOOSE mem \in UninitializedMemory : mem.refCount = 0)
    /\ matrixInitMethod = NoObject
    /\ iterMultiplyMethods = NullNode
    /\ multMethod = NoObject
    /\ loop = 0
    /\ mainCall = NoMainCall
    /\ inits = 0
    /\ multiplies = 0
    /\ summaries = <<>>
    /\ exitStatus = 0
    /\ errorPrinted = ""
    /\ timerOutputFormat = ExecutionTimerOutputFormatInvalid
    /\ formatCall = NoFormatCall
    /\ FortranIdle
    /\ OmpIdle
    /\ objName = <<>>
    /\ copyCall = NoCopyCall
    /\ parsePc = "idle"
    /\ parseFrames = <<>>

DriverIdle ==
    /\ ListIdle
    /\ ObjectIdle
    /\ MainIdle
    /\ buildConfig = [HAVE_DIRECTIO |-> TRUE, HAVE_BLAS |-> TRUE]

\* the history of a timer that ExecutionTimerCreate has just returned
HistoryAtCreate ==
    /\ lastOp = "Create"
    /\ consecStarts = 0
    /\ cyclesDone = 0
    /\ lastStartNow = BootEnv
    /\ sampleStarts = 0
    /\ resetSeen = FALSE
    /\ lastSample = NoSample
    /\ openAtReset = FALSE
    /\ releasesOverRetains = 0

\* the state after theTimer = ExecutionTimerCreate()
Init ==
    /\ timer \in FreshTimers
    /\ shadow \in FreshTimers
    /\ allocated = TRUE
    /\ env = BootEnv
    /\ ticks = 0
    /\ HistoryAtCreate
    /\ DatumIdle
    /\ RegistryIdle
    /\ DriverIdle

\* half a second of the process's life
Tick(kind) ==
    /\ ticks < MaxTicks
    /\ env' = Advance(env, kind)
    /\ ticks' = ticks + 1
    /\ UNCHANGED <<timer, allocated, shadow, lastOp, consecStarts, cyclesDone,
                   lastStartNow, sampleStarts, resetSeen, lastSample, openAtReset,
                   releasesOverRetains, datumVars,
                   registryVars, driverVars>>

Create ==
    /\ ~allocated
    /\ timer' \in FreshTimers
    /\ shadow' \in FreshTimers
    /\ allocated' = TRUE
    /\ lastOp' = "Create"
    /\ consecStarts' = 0
    /\ cyclesDone' = 0
    /\ lastStartNow' = BootEnv
    /\ sampleStarts' = 0
    /\ resetSeen' = FALSE
    /\ lastSample' = NoSample
    /\ openAtReset' = FALSE
    /\ releasesOverRetains' = 0
    /\ UNCHANGED <<env, ticks, datumVars,
                   registryVars, driverVars>>

Retain ==
    /\ allocated
    /\ timer.refCount < MaxRefs
    /\ timer' = ExecutionTimerRetain(timer)
    /\ releasesOverRetains' = releasesOverRetains - 1
    /\ UNCHANGED <<allocated, env, ticks, shadow, lastOp, consecStarts, cyclesDone,
                   lastStartNow, sampleStarts, resetSeen, lastSample, openAtReset,
                   datumVars,
                   registryVars, driverVars>>

\* --refCount, and free() when it reaches zero: nothing of the block or of its
\* history is left
Release ==
    /\ allocated
    /\ LET t == ExecutionTimerRelease(timer)
       IN  IF t.refCount = 0
           THEN /\ allocated' = FALSE
                /\ timer' = FreedBlock
                /\ shadow' = FreedBlock
                /\ lastOp' = "Release"
                /\ consecStarts' = 0
                /\ cyclesDone' = 0
                /\ lastStartNow' = BootEnv
                /\ sampleStarts' = 0
                /\ resetSeen' = FALSE
                /\ lastSample' = NoSample
                /\ openAtReset' = FALSE
           ELSE /\ timer' = t
                /\ UNCHANGED <<allocated, shadow, lastOp, consecStarts, cyclesDone,
                               lastStartNow, sampleStarts, resetSeen, lastSample,
                               openAtReset>>
    /\ releasesOverRetains' = releasesOverRetains + 1
    /\ UNCHANGED <<env, ticks, datumVars,
                   registryVars, driverVars>>

Reset ==
    /\ allocated
    /\ timer' = ExecutionTimerReset(timer)
    /\ shadow' \in FreshTimers
    /\ lastOp' = "Reset"
    /\ consecStarts' = 0
    /\ cyclesDone' = 0
    /\ sampleStarts' = 0
    /\ resetSeen' = TRUE
    /\ lastSample' = NoSample
    /\ openAtReset' = (lastOp = "Start")
    /\ UNCHANGED <<allocated, env, ticks, lastStartNow, releasesOverRetains, datumVars,
                   registryVars, driverVars>>

Start ==
    /\ allocated
    /\ timer' = ExecutionTimerStart(timer, env)
    /\ shadow' = ExecutionTimerStart(shadow, env)
    /\ lastOp' = "Start"
    /\ consecStarts' = IF lastOp = "Start" THEN 2 ELSE 1
    /\ lastStartNow' = env
    /\ openAtReset' = FALSE
    /\ UNCHANGED <<allocated, env, ticks, cyclesDone, sampleStarts, resetSeen,
                   lastSample, releasesOverRetains, datumVars,
                   registryVars, driverVars>>

Stop ==
    /\ allocated
    /\ timer.isStarted => timer.cycleCount < MaxCycles
    /\ timer' = ExecutionTimerStop(timer, env)
    /\ shadow' = ExecutionTimerStop(shadow, env)
    /\ lastOp' = "Stop"
    /\ consecStarts' = 0
    /\ cyclesDone' = IF lastOp = "Start" THEN cyclesDone + 1 ELSE cyclesDone
    /\ sampleStarts' = IF lastOp = "Start" THEN consecStarts ELSE sampleStarts
    /\ lastSample' = IF lastOp = "Start"
                      THEN [m \in Metrics |-> Spent(lastStartNow, env, m)]
                      ELSE lastSample
    /\ UNCHANGED <<allocated, env, ticks, lastStartNow, resetSeen, openAtReset,
                   releasesOverRetains, datumVars,
                   registryVars, driverVars>>

Next ==
    \/ \E kind \in WorkKinds : Tick(kind)
    \/ Create
    \/ Retain
    \/ Release
    \/ Reset
    \/ Start
    \/ Stop

Spec == Init /\ [][Next]_vars

(***************************************************************************)
(* SpecDatum: one ExecutionTimerDatum under direct calls of its functions. *)
(* Each Update passes either the next n or n = 1 again.                    *)
(***************************************************************************)
TimerIdle ==
    /\ timer = ExecutionTimerCreate(CHOOSE mem \in UninitializedMemory : mem.refCount = 0)
    /\ shadow = timer
    /\ allocated = TRUE
    /\ env = BootEnv
    /\ ticks = 0
    /\ HistoryAtCreate

DatumInit ==
    /\ TimerIdle
    /\ DatumIdle
    /\ RegistryIdle
    /\ DriverIdle

DatumReset ==
    /\ acc' = ExecutionTimerDatumReset(acc)
    /\ accN' = 0
    /\ accCalls' = 0
    /\ accInSeq' = TRUE
    /\ accHist' = <<>>
    /\ accArg' = 0
    /\ UNCHANGED <<timerVars, registryVars, driverVars>>

DatumUpdate(n, value) ==
    /\ accCalls < MaxUpdates
    /\ acc' = ExecutionTimerDatumUpdate(acc, n, D(value))
    /\ accN' = n
    /\ accCalls' = accCalls + 1
    /\ accInSeq' = (accInSeq /\ n = accN + 1)
    /\ accHist' = IF accInSeq' THEN Append(accHist, value) ELSE <<>>
    /\ accArg' = value
    /\ UNCHANGED <<timerVars, registryVars, driverVars>>

DatumNext ==
    \/ DatumReset
    \/ \E value \in Values : DatumUpdate(accN + 1, value)
    \/ \E value \in Values : DatumUpdate(1, value)

SpecDatum == DatumInit /\ [][DatumNext]_vars

(***************************************************************************)
(* SpecRegistry                                                            *)
(***************************************************************************)
\* the names that resolve to no built-in of either registry, in any build
PlainNames ==
    {name \in Specifications \ {Name_empty} :
        /\ \A b \in {MultiplyBuiltIns[i] : i \in 1..Len(MultiplyBuiltIns)}
                 \cup {InitBuiltIns(TRUE)[i] : i \in 1..Len(InitBuiltIns(TRUE))} :
              ~LookupMatches([name |-> b.name, nameLen |-> strlen(b.name)],
                             name, strlen(name))}

RegistryInit ==
    /\ TimerIdle
    /\ DatumIdle
    /\ multiplyStatics = EmptyRegistry("MatrixMultiplyMethod.c", TRUE)
    /\ \E HAVE_OPENMP \in BOOLEAN :
          initStatics = EmptyRegistry("MatrixInitMethod.c", HAVE_OPENMP)
    /\ regOp = "none"
    /\ regArg = Name_empty
    /\ regMallocOk = TRUE
    /\ regResult = [multiply |-> FALSE, init |-> FALSE]
    /\ regPlainSoFar = TRUE
    /\ DriverIdle

\* MatrixMultiplyMethodRegister(name, &callbacks) and
\* MatrixInitMethodRegister(name, &callbacks)
Register(name, mallocOk) ==
    LET m == MatrixMultiplyMethodRegister(multiplyStatics, name, CallerCallbacks, mallocOk)
        i == MatrixInitMethodRegister(initStatics, name, CallerCallbacks, mallocOk)
    IN  /\ multiplyStatics' = m.registry
        /\ initStatics' = i.registry
        /\ regOp' = "Register"
        /\ regArg' = name
        /\ regMallocOk' = mallocOk
        /\ regResult' = [multiply |-> m.result, init |-> i.result]
        /\ regPlainSoFar' = (regPlainSoFar /\ name \in PlainNames)
        /\ UNCHANGED <<timerVars, datumVars, driverVars>>

\* MatrixMultiplyMethodUnregister(name) and MatrixInitMethodUnregister(name)
Unregister(name) ==
    /\ multiplyStatics' = MatrixMultiplyMethodUnregister(multiplyStatics, name)
    /\ initStatics' = MatrixMultiplyMethodUnregister(initStatics, name)
    /\ regOp' = "Unregister"
    /\ regArg' = name
    /\ regMallocOk' = TRUE
    /\ regResult' = [multiply |-> FALSE, init |-> FALSE]
    /\ regPlainSoFar' = (regPlainSoFar /\ name \in PlainNames)
    /\ UNCHANGED <<timerVars, datumVars, driverVars>>

\* the name of the entry at position mp of the list, the empty string for NULL
FoundName(r, mp) == IF mp = 0 THEN NULL.name ELSE r.methods[mp].name

\* __MatrixMultiplyMethodLookup(specification, strlen(specification)) and
\* __MatrixInitMethodLookup(specification, strlen(specification)), as the
\* Create functions of the two files call them
Lookup(specification) ==
    LET m == __MatrixMultiplyMethodLookup(multiplyStatics, specification, strlen(specification))
        i == __MatrixMultiplyMethodLookup(initStatics, specification, strlen(specification))
    IN  /\ multiplyStatics' = m.registry
        /\ initStatics' = i.registry
        /\ regOp' = "Lookup"
        /\ regArg' = specification
        /\ regMallocOk' = TRUE
        /\ regResult' = [multiply |-> FoundName(m.registry, m.mp),
                         init |-> FoundName(i.registry, i.mp)]
        /\ regPlainSoFar' = (regPlainSoFar /\ specification \in PlainNames)
        /\ UNCHANGED <<timerVars, datumVars, driverVars>>

\* MatrixMultiplyMethodPrintTokenList(stream) and MatrixInitMethodPrintTokenList(stream)
PrintTokenList ==
    LET m == MatrixMultiplyMethodPrintTokenList(multiplyStatics)
        i == MatrixMultiplyMethodPrintTokenList(initStatics)
    IN  /\ multiplyStatics' = m.registry
        /\ initStatics' = i.registry
        /\ regOp' = "PrintTokenList"
        /\ regArg' = Name_empty
        /\ regMallocOk' = TRUE
        /\ regResult' = [multiply |-> m.tokens, init |-> i.tokens]
        /\ UNCHANGED <<regPlainSoFar, timerVars, datumVars, driverVars>>

RegistryNext ==
    \/ \E name \in Names, mallocOk \in BOOLEAN : Register(name, mallocOk)
    \/ \E name \in Names : Unregister(name)
    \/ \E specification \in Specifications : Lookup(specification)
    \/ PrintTokenList

SpecRegistry == RegistryInit /\ [][RegistryNext]_vars

(***************************************************************************)
(* SpecList                                                                *)
(***************************************************************************)
\* DEFAULT_MULTIPLY_METHODS and values of --routines
Spec_default == <<"b", "a", "s", "i", "c", ",", "b", "a", "s", "i", "c", "-", "f", "o", "r", "t", "r", "a", "n">>

Spec_basic_opt == <<"=", "b", "a", "s", "i", "c", ",", "o", "p", "t">>

Spec_less_opt_plus_blas == <<"-", "o", "p", "t", ",", "+", "b", "l", "a", "s">>

Spec_eq_all == <<"=", "a", "l", "l">>

Spec_less_all_plus_basic == <<"-", "a", "l", "l", ",", "+", "b", "a", "s", "i", "c">>

Spec_upper == <<"B", "A", "S", "I", "C", ",", "+", "O", "p", "t">>

Spec_less_upper == <<"-", "B", "L", "A", "S", ",", "A", "L", "L", ",", "-", "B", "a", "s", "i", "c">>

Spec_gaps == <<"o", "p", "t", ",", ",", "-">>

Spec_opt_gap_blas == <<"o", "p", "t", ",", ",", "b", "l", "a", "s">>

Spec_plus == <<"+">>

Spec_less == <<"-">>

Spec_less_basic_fortran == <<"-", "b", "a", "s", "i", "c", "-", "f", "o", "r", "t", "r", "a", "n">>

ListSpecs == {Spec_default, Spec_basic_opt, Spec_less_opt_plus_blas, Spec_eq_all,
              Spec_less_all_plus_basic, Spec_upper, Spec_less_upper, Spec_gaps,
              Spec_opt_gap_blas, Spec_plus, Spec_less, Spec_less_basic_fortran}

\* the most MultiplyMethodListParse calls of one run
MaxParses == 3

ListInit ==
    /\ TimerIdle
    /\ DatumIdle
    /\ RegistryIdle
    /\ DriverIdle

\* MultiplyMethodListParse(&multiplyMethods, nameList)
ListParse(nameList) ==
    LET parsed == MultiplyMethodListParse(listHeap, multiplyMethods, nameList,
                                          multiplyStatics, tokenListStatics)
    IN  /\ parses < MaxParses
        /\ listHeap' = parsed.heap
        /\ multiplyMethods' = parsed.list
        /\ multiplyStatics' = parsed.registry
        /\ tokenListStatics' = parsed.tokenList
        /\ listArg' = nameList
        /\ listBefore' = ListFrom(listHeap, multiplyMethods)
        /\ parses' = parses + 1
        /\ UNCHANGED <<mainVars, timerVars, datumVars, initStatics, regOp, regArg, regMallocOk,
                       regResult, regPlainSoFar, objectVars>>

ListNext == \E nameList \in ListSpecs : ListParse(nameList)

SpecList == ListInit /\ [][ListNext]_vars

(***************************************************************************)
(* SpecObject                                                              *)
(***************************************************************************)
Spec_file_direct_noatime == <<"f", "i", "l", "e", "=", "d", "i", "r", "e", "c", "t", ",", "n", "o", "a", "t", "i", "m", "e", ":", "/", "t", "m", "p", "/", "m", "a", "t", "s">>

Spec_file_direct == <<"f", "i", "l", "e", "=", "d", "i", "r", "e", "c", "t", ":", "m", "a", "t">>

Spec_file_sync_noatime == <<"f", "i", "l", "e", "=", "s", "y", "n", "c", ",", "n", "o", "a", "t", "i", "m", "e", ",", ":", "m", "a", "t">>

Spec_random == <<"r", "a", "n", "d", "o", "m">>

Spec_blas == <<"b", "l", "a", "s">>

Spec_nosuch == <<"n", "o", "s", "u", "c", "h">>

\* the specifications passed to Create
ObjectSpecs == {Name_foo, Name_foo_eq_1, Spec_file_direct_noatime, Spec_file_direct,
                Spec_file_sync_noatime, Spec_random, Spec_blas, Spec_nosuch}

\* the names a caller registers
ObjectNames == {Name_foo, Name_foo_eq_1}

\* what a Create call may meet
CreateWorlds ==
    {CalmWorld,
     [CalmWorld EXCEPT !.mallocOk = FALSE], [CalmWorld EXCEPT !.allocOk = FALSE],
     [CalmWorld EXCEPT !.openOk = FALSE], [CalmWorld EXCEPT !.contextOk = FALSE]}

\* the files a Create call may open: empty, one element and a half, two elements
FileWorlds ==
    {[CalmWorld EXCEPT !.fileSize = size] :
        size \in {0, SizeofReal + SizeofReal \div 2, 2 * SizeofReal}}

\* what an Init or Multiply call may meet
OperateWorlds ==
    {[CalmWorld EXCEPT !.readErrorAt = nth, !.seekOk = seekOk] :
        nth \in 0..3, seekOk \in BOOLEAN}

\* the matrix dimensions passed
Dimensions == {1, 2}

ObjectInit ==
    /\ TimerIdle
    /\ DatumIdle
    /\ RegistryIdle
    /\ ListIdle
    /\ ObjectIdle
    /\ MainIdle
    /\ buildConfig \in [HAVE_DIRECTIO : BOOLEAN, HAVE_BLAS : {TRUE}]

\* MatrixMultiplyMethodRegister(name, &callbacks) and
\* MatrixInitMethodRegister(name, &callbacks); a caller registers its methods,
\* here the same ones with both files, before it creates objects
ObjRegister(name) ==
    /\ objOp \in {"none", "Register"}
    /\ multiplyStatics' =
          MatrixMultiplyMethodRegister(multiplyStatics, name, CallerCallbacks, TRUE).registry
    /\ initStatics' =
          MatrixInitMethodRegister(initStatics, name, CallerCallbacks, TRUE).registry
    /\ objOp' = "Register"
    /\ objArg' = name
    /\ objCalls' = NoCalls
    /\ UNCHANGED <<mainVars, timerVars, datumVars, regOp, regArg, regMallocOk, regResult,
                   regPlainSoFar, listVars, buildConfig, obj, objLive, objOf, objFile,
                   objDeallocs, objRetains, objReleases, objRan>>

\* MatrixMultiplyObjectCreate(specification) or MatrixInitObjectCreate(specification)
ObjCreate(f, specification, w) ==
    LET created == IF f = "multiply"
                   THEN MatrixMultiplyObjectCreate(multiplyStatics, specification, w,
                                                   buildConfig)
                   ELSE MatrixInitObjectCreate(initStatics, specification, w, buildConfig)
    IN  /\ ~objLive
        /\ multiplyStatics' = IF f = "multiply" THEN created.registry ELSE multiplyStatics
        /\ initStatics' = IF f = "init" THEN created.registry ELSE initStatics
        /\ obj' = created.newObj
        /\ objLive' = (created.newObj # NoObject)
        /\ objOf' = f
        /\ objFile' = created.file
        /\ objOp' = "Create"
        /\ objArg' = specification
        /\ objCalls' = [allocs |-> created.allocs, deallocs |-> <<>>,
                        opens |-> created.opens, returned |-> created.newObj,
                        freed |-> created.freed, noMemory |-> created.noMemory]
        /\ objDeallocs' = 0
        /\ objRetains' = 0
        /\ objReleases' = 0
        /\ objRan' = NoRun
        /\ UNCHANGED <<mainVars, timerVars, datumVars, regOp, regArg, regMallocOk, regResult,
                       regPlainSoFar, listVars, buildConfig>>

\* MatrixMultiplyObjectRetain(obj) or MatrixInitObjectRetain(obj)
ObjRetain ==
    /\ objLive
    /\ objRetains < MaxRefs
    /\ obj' = IF objOf = "multiply" THEN MatrixMultiplyObjectRetain(obj)
              ELSE MatrixInitObjectRetain(obj)
    /\ objOp' = "Retain"
    /\ objCalls' = [NoCalls EXCEPT !.returned = obj']
    /\ objRetains' = objRetains + 1
    /\ objRan' = NoRun
    /\ UNCHANGED <<mainVars, timerVars, datumVars, registryVars, listVars, buildConfig, objLive,
                   objOf, objFile, objArg, objDeallocs, objReleases>>

\* MatrixMultiplyObjectRelease(obj) or MatrixInitObjectRelease(obj)
ObjRelease ==
    LET released == IF objOf = "multiply" THEN MatrixMultiplyObjectRelease(obj, objFile)
                    ELSE MatrixInitObjectRelease(obj, objFile)
    IN  /\ objLive
        /\ obj' = IF released.freed THEN NoObject ELSE released.obj
        /\ objLive' = ~released.freed
        /\ objFile' = released.file
        /\ objOp' = "Release"
        /\ objCalls' = [NoCalls EXCEPT !.deallocs = released.deallocs,
                                       !.freed = released.freed]
        /\ objDeallocs' = objDeallocs + Len(released.deallocs)
        /\ objReleases' = objReleases + 1
        /\ objRan' = NoRun
        /\ UNCHANGED <<mainVars, timerVars, datumVars, registryVars, listVars, buildConfig, objOf,
                       objArg, objRetains>>

\* MatrixMultiplyObjectMultiply(obj, timer, ...) or MatrixInitObjectInit(obj, timer, ...)
ObjOperate(n, w) ==
    LET ran == IF objOf = "multiply"
               THEN MatrixMultiplyObjectMultiply(obj, objFile, timer, env, n, w, buildConfig)
               ELSE MatrixInitObjectInit(obj, objFile, timer, env, n, w, buildConfig)
    IN  /\ objLive
        /\ timer.cycleCount < MaxCycles
        /\ timer' = ran.timer
        /\ objFile' = ran.file
        /\ objOp' = "Operate"
        /\ objCalls' = NoCalls
        /\ objRan' = [ok |-> ran.ok, n |-> n, cyclesBefore |-> timer.cycleCount,
                      startedBefore |-> timer.isStarted, starts |-> ran.starts,
                      stops |-> ran.stops, reads |-> ran.reads,
                      perElement |-> ran.perElement]
        /\ UNCHANGED <<mainVars, allocated, env, ticks, shadow, lastOp, consecStarts, cyclesDone,
                       lastStartNow, sampleStarts, resetSeen, lastSample, openAtReset,
                       releasesOverRetains, datumVars, registryVars, listVars, buildConfig,
                       obj, objLive, objOf, objArg, objDeallocs, objRetains, objReleases>>

ObjectNext ==
    \/ \E name \in ObjectNames : ObjRegister(name)
    \/ \E f \in {"multiply", "init"}, specification \in ObjectSpecs, w \in CreateWorlds :
          ObjCreate(f, specification, w)
    \/ ObjRetain
    \/ ObjRelease

SpecObject == ObjectInit /\ [][ObjectNext]_vars

(***************************************************************************)
(* SpecOperate: one method object, created as main creates its objects and *)
(* then handed the timer for any number of Init or Multiply calls.         *)
(***************************************************************************)
OperateInit ==
    /\ TimerIdle
    /\ DatumIdle
    /\ RegistryIdle
    /\ ListIdle
    /\ ObjectIdle
    /\ MainIdle
    /\ buildConfig \in [HAVE_DIRECTIO : {TRUE}, HAVE_BLAS : BOOLEAN]

\* the one Create call of the behaviour
OperateCreate(f, specification, w) ==
    /\ objOp = "none"
    /\ ObjCreate(f, specification, w)

OperateNext ==
    \/ \E f \in {"multiply", "init"}, specification \in ObjectSpecs, w \in FileWorlds :
          OperateCreate(f, specification, w)
    \/ \E n \in Dimensions, w \in OperateWorlds : ObjOperate(n, w)

SpecOperate == OperateInit /\ [][OperateNext]_vars

(***************************************************************************)
(* SpecMain: one run of main, from its first statement to the end of the   *)
(* process, over some command lines.  The options that bear on neither the *)
(* method list, the init method nor the loop count (-v, -A, -S, -s, -n,    *)
(* -a, -b, -f, -h) are not passed.                                         *)
(***************************************************************************)
Spec_eq_nosuch_basic == <<"=", "n", "o", "s", "u", "c", "h", ",", "b", "a", "s", "i", "c">>

Spec_eq_blas == <<"=", "b", "l", "a", "s">>

\* the values of --routines passed
MainRoutines == {Spec_nosuch, Spec_eq_nosuch_basic, Spec_eq_blas}

\* the values of --init passed
MainInitSpecs == {Name_empty, Spec_nosuch, Spec_file_direct}

\* the values passed after -l
NloopValues == {1, 2}

\* the most options of one command line
MaxOptions == 2

\* what the Create calls of main may meet
MainCreateWorlds == FileWorlds \cup {[CalmWorld EXCEPT !.mallocOk = FALSE]}

\* what a pass of the for loop may meet
MainLoopWorlds == {CalmWorld, [CalmWorld EXCEPT !.readErrorAt = 1]}

\* the builds of CMakeLists.txt: with and without a BLAS library
MainInit ==
    /\ TimerIdle
    /\ DatumIdle
    /\ RegistryIdle
    /\ ListIdle
    /\ ObjectIdle
    /\ MainIdle
    /\ buildConfig \in [HAVE_DIRECTIO : {TRUE}, HAVE_BLAS : BOOLEAN]

\* main up to the getopt loop
MainStart ==
    LET parsed == MultiplyMethodListParse(listHeap, multiplyMethods, Spec_default,
                                          multiplyStatics, tokenListStatics)
    IN  /\ mainPc = "start"
        /\ listHeap' = parsed.heap
        /\ multiplyMethods' = parsed.list
        /\ multiplyStatics' = parsed.registry
        /\ tokenListStatics' = parsed.tokenList
        /\ listArg' = Spec_default
        /\ listBefore' = ListFrom(listHeap, multiplyMethods)
        /\ parses' = parses + 1
        /\ mainPc' = "options"
        /\ timerOutputFormat' = ExecutionTimerOutputFormatParse(DEFAULT_OUTPUT_FORMAT)
        /\ UNCHANGED <<besideMain, formatCall, timerVars, datumVars, initStatics, regOp, regArg, regMallocOk,
                       regResult, regPlainSoFar, objectVars, initMethod, nloop,
                       optionsSeen, nloopAsked, matInitTimer, matrixInitMethod,
                       iterMultiplyMethods, multMethod, loop, mainCall, inits,
                       multiplies, summaries, exitStatus, errorPrinted>>

\* case 'i' of the getopt loop
MainOptionInit(optarg) ==
    /\ mainPc = "options"
    /\ optionsSeen < MaxOptions
    /\ optionsSeen' = optionsSeen + 1
    /\ mainCall' = [NoMainCall EXCEPT !.kind = "option"]
    /\ IF optarg = <<>>
       THEN /\ errorPrinted' = "no matrix init specification provided"
            /\ exitStatus' = EINVAL
            /\ mainPc' = "exit"
            /\ UNCHANGED initMethod
       ELSE /\ initMethod' = optarg
            /\ UNCHANGED <<errorPrinted, exitStatus, mainPc>>
    /\ UNCHANGED <<besideMain, timerOutputFormat, formatCall, timerVars, datumVars, registryVars, listVars, objectVars, nloop,
                   nloopAsked, matInitTimer, matrixInitMethod, iterMultiplyMethods,
                   multMethod, loop, inits, multiplies, summaries>>

\* case 'r' of the getopt loop
MainOptionRoutines(optarg) ==
    LET parsed == MultiplyMethodListParse(listHeap, multiplyMethods, optarg,
                                          multiplyStatics, tokenListStatics)
    IN  /\ mainPc = "options"
        /\ optionsSeen < MaxOptions
        /\ optionsSeen' = optionsSeen + 1
        /\ mainCall' = [NoMainCall EXCEPT !.kind = "option"]
        /\ IF optarg # <<>>
           THEN /\ listHeap' = parsed.heap
                /\ multiplyMethods' = parsed.list
                /\ multiplyStatics' = parsed.registry
                /\ tokenListStatics' = parsed.tokenList
                /\ listArg' = optarg
                /\ listBefore' = ListFrom(listHeap, multiplyMethods)
                /\ parses' = parses + 1
           ELSE UNCHANGED <<listVars, multiplyStatics>>
        /\ UNCHANGED <<besideMain, timerOutputFormat, formatCall, timerVars, datumVars, initStatics, regOp, regArg, regMallocOk,
                       regResult, regPlainSoFar, objectVars, mainPc, initMethod, nloop,
                       nloopAsked, matInitTimer, matrixInitMethod, iterMultiplyMethods,
                       multMethod, loop, inits, multiplies, summaries, exitStatus,
                       errorPrinted>>

\* -l k on the command line: cli_optstring and cli_opts have no such option,
\* getopt_long returns '?' and the switch has no case for it
MainOptionNloop(k) ==
    /\ mainPc = "options"
    /\ optionsSeen < MaxOptions
    /\ optionsSeen' = optionsSeen + 1
    /\ nloopAsked' = k
    /\ mainCall' = [NoMainCall EXCEPT !.kind = "option"]
    /\ UNCHANGED <<besideMain, timerOutputFormat, formatCall, timerVars, datumVars, registryVars, listVars, objectVars, mainPc,
                   initMethod, nloop, matInitTimer, matrixInitMethod,
                   iterMultiplyMethods, multMethod, loop, inits, multiplies, summaries,
                   exitStatus, errorPrinted>>

\* from the end of the options to the while loop over the methods
MainBegin(w, matricesOk) ==
    LET created == MatrixInitObjectCreate(initStatics, initMethod, w, buildConfig)
    IN  /\ mainPc = "options"
        /\ initStatics' = created.registry
        /\ matrixInitMethod' = created.newObj
        /\ objFile' = created.file
        /\ mainCall' = [NoMainCall EXCEPT !.kind = "init create", !.name = initMethod,
                                          !.returned = created.newObj]
        /\ IF created.newObj = NoObject
           THEN /\ errorPrinted' = "unable to allocate matrix initializer"
                /\ exitStatus' = EINVAL
                /\ mainPc' = "exit"
                /\ UNCHANGED iterMultiplyMethods
           ELSE IF ~matricesOk
           THEN /\ errorPrinted' = "unable to allocate matrices"
                /\ exitStatus' = 1
                /\ mainPc' = "exit"
                /\ UNCHANGED iterMultiplyMethods
           ELSE /\ iterMultiplyMethods' = multiplyMethods
                /\ mainPc' = "methods"
                /\ UNCHANGED <<errorPrinted, exitStatus>>
        /\ UNCHANGED <<besideMain, timerOutputFormat, formatCall, timerVars, datumVars, multiplyStatics, regOp, regArg, regMallocOk,
                       regResult, regPlainSoFar, listVars, buildConfig, obj, objLive,
                       objOf, objOp, objArg, objCalls, objDeallocs, objRetains,
                       objReleases, objRan, initMethod, nloop, optionsSeen, nloopAsked,
                       matInitTimer, multMethod, loop, inits, multiplies, summaries>>

\* the while loop over the methods, from its test to the for loop
MainMethod(w) ==
    LET iter == MultiplyMethodListIter(listHeap, iterMultiplyMethods)
        created == MatrixMultiplyObjectCreate(multiplyStatics, iter.methodStr, w,
                                              buildConfig)
    IN  /\ mainPc = "methods"
        /\ iterMultiplyMethods # NullNode
        /\ iterMultiplyMethods' = iter.next
        /\ multiplyStatics' = created.registry
        /\ multMethod' = created.newObj
        /\ mainCall' = [NoMainCall EXCEPT !.kind = "multiply create",
                                          !.name = iter.methodStr,
                                          !.returned = created.newObj]
        /\ IF created.newObj # NoObject
           THEN /\ timer' = ExecutionTimerReset(timer)
                /\ loop' = 0
                /\ mainPc' = "loop"
                /\ UNCHANGED <<errorPrinted, exitStatus>>
           ELSE /\ errorPrinted' = "no such multiplication method"
                /\ exitStatus' = EINVAL
                /\ mainPc' = "exit"
                /\ UNCHANGED <<timer, loop>>
        /\ UNCHANGED <<besideMain, timerOutputFormat, formatCall, allocated, env, ticks, shadow, lastOp, consecStarts, cyclesDone,
                       lastStartNow, sampleStarts, resetSeen, lastSample, openAtReset,
                       releasesOverRetains, datumVars, initStatics, regOp, regArg,
                       regMallocOk, regResult, regPlainSoFar, listVars, objectVars,
                       initMethod, nloop, optionsSeen, nloopAsked, matInitTimer,
                       matrixInitMethod, inits, multiplies, summaries>>

\* one pass of the for loop
MainLoopBody(w) ==
    LET ran == LoopBody(matrixInitMethod, multMethod, objFile, matInitTimer, timer, env,
                        Dimension, w, buildConfig)
    IN  /\ mainPc = "loop"
        /\ loop < nloop
        /\ matInitTimer' = ran.initTimer
        /\ timer' = ran.mulTimer
        /\ objFile' = ran.file
        /\ inits' = inits + Len(ran.initOks)
        /\ multiplies' = multiplies + Len(ran.multiplyOks)
        /\ mainCall' = [NoMainCall EXCEPT !.kind = "loop body", !.initOks = ran.initOks,
                                          !.multiplyOks = ran.multiplyOks]
        /\ IF ran.error # ""
           THEN /\ errorPrinted' = ran.error
                /\ exitStatus' = 1
                /\ mainPc' = "exit"
                /\ UNCHANGED loop
           ELSE /\ loop' = loop + 1
                /\ UNCHANGED <<errorPrinted, exitStatus, mainPc>>
        /\ UNCHANGED <<besideMain, timerOutputFormat, formatCall, allocated, env, ticks, shadow, lastOp, consecStarts, cyclesDone,
                       lastStartNow, sampleStarts, resetSeen, lastSample, openAtReset,
                       releasesOverRetains, datumVars, registryVars, listVars,
                       buildConfig, obj, objLive, objOf, objOp, objArg, objCalls,
                       objDeallocs, objRetains, objReleases, objRan, initMethod, nloop,
                       optionsSeen, nloopAsked, matrixInitMethod, iterMultiplyMethods,
                       multMethod, summaries>>

\* from the end of the for loop to the test of the while loop
MainSummarize ==
    LET released == MatrixMultiplyObjectRelease(multMethod, objFile)
    IN  /\ mainPc = "loop"
        /\ loop >= nloop
        /\ summaries' = Append(summaries, [timer |-> "matMulTimer",
                                           name |-> multMethod.method.name,
                                           cycleCount |-> timer.cycleCount])
        /\ multMethod' = IF released.freed THEN NoObject ELSE released.obj
        /\ objFile' = released.file
        /\ mainCall' = [NoMainCall EXCEPT !.kind = "summary"]
        /\ mainPc' = "methods"
        /\ UNCHANGED <<besideMain, timerOutputFormat, formatCall, timerVars, datumVars, registryVars, listVars, buildConfig, obj,
                       objLive, objOf, objOp, objArg, objCalls, objDeallocs, objRetains,
                       objReleases, objRan, initMethod, nloop, optionsSeen, nloopAsked,
                       matInitTimer, matrixInitMethod, iterMultiplyMethods, loop, inits,
                       multiplies, exitStatus, errorPrinted>>

\* from the end of the while loop to return 0
MainEnd ==
    LET released == MatrixInitObjectRelease(matrixInitMethod, objFile)
    IN  /\ mainPc = "methods"
        /\ iterMultiplyMethods = NullNode
        /\ summaries' = Append(summaries, [timer |-> "matInitTimer",
                                           name |-> matrixInitMethod.method.name,
                                           cycleCount |-> matInitTimer.cycleCount])
        /\ listHeap' = __MultiplyMethodListDealloc(listHeap, multiplyMethods)
        /\ multiplyMethods' = NullNode
        /\ matrixInitMethod' = IF released.freed THEN NoObject ELSE released.obj
        /\ objFile' = released.file
        /\ mainCall' = [NoMainCall EXCEPT !.kind = "end"]
        /\ exitStatus' = 0
        /\ mainPc' = "exit"
        /\ UNCHANGED <<besideMain, timerOutputFormat, formatCall, timerVars, datumVars, registryVars, tokenListStatics, listArg,
                       listBefore, parses, buildConfig, obj, objLive, objOf, objOp,
                       objArg, objCalls, objDeallocs, objRetains, objReleases, objRan,
                       initMethod, nloop, optionsSeen, nloopAsked, matInitTimer,
                       iterMultiplyMethods, multMethod, loop, inits, multiplies,
                       errorPrinted>>

MainNext ==
    \/ MainStart
    \/ \E optarg \in MainInitSpecs : MainOptionInit(optarg)
    \/ \E optarg \in MainRoutines : MainOptionRoutines(optarg)
    \/ \E k \in NloopValues : MainOptionNloop(k)
    \/ \E w \in MainCreateWorlds, matricesOk \in BOOLEAN : MainBegin(w, matricesOk)
    \/ \E w \in MainCreateWorlds : MainMethod(w)
    \/ \E w \in MainLoopWorlds : MainLoopBody(w)
    \/ MainSummarize
    \/ MainEnd

SpecMain == MainInit /\ [][MainNext]_vars


(***************************************************************************)
(* SpecFormat: main's first statements and its getopt loop over command    *)
(* lines of -f options.                                                    *)
(***************************************************************************)
\* the values of --format passed
FormatArgs ==
    {<<>>, <<"t", "a", "b", "l", "e">>, <<"c", "s", "v">>, <<"t", "s", "v">>,
     <<"j", "s", "o", "n">>, <<"y", "a", "m", "l">>, <<"J", "S", "O", "N">>,
     <<"Y", "a", "m", "l">>, <<"t", "a", "b">>, <<"t", "a", "b", "l", "e", "s">>,
     <<"x", "m", "l">>}

\* case 'f' of the getopt loop
MainOptionFormat(optarg) ==
    LET newFormat == ExecutionTimerOutputFormatParse(optarg)
    IN  /\ mainPc = "options"
        /\ optionsSeen < MaxOptions
        /\ optionsSeen' = optionsSeen + 1
        /\ mainCall' = [NoMainCall EXCEPT !.kind = "option"]
        /\ formatCall' = [optarg |-> optarg, newFormat |-> newFormat,
                          before |-> timerOutputFormat,
                          warned |-> newFormat = ExecutionTimerOutputFormatInvalid]
        /\ timerOutputFormat' = IF newFormat = ExecutionTimerOutputFormatInvalid
                                THEN timerOutputFormat
                                ELSE newFormat
        /\ UNCHANGED <<timerVars, datumVars, registryVars, listVars, objectVars, mainPc,
                       initMethod, nloop, nloopAsked, matInitTimer, matrixInitMethod,
                       iterMultiplyMethods, multMethod, loop, inits, multiplies,
                       summaries, exitStatus, errorPrinted, besideMain>>

FormatNext ==
    \/ MainStart
    \/ \E optarg \in FormatArgs : MainOptionFormat(optarg)

SpecFormat == MainInit /\ [][FormatNext]_vars

(***************************************************************************)
(* SpecFortran: a Fortran program calling the interface's subroutines in   *)
(* any order, with ids it was given and ids it was not.                    *)
(***************************************************************************)
\* the ids passed: below the table, its first two, its last, beyond it
FortranIds == {-1, 0, 1, EXECUTIONTIMER_FORTRAN_MAX_INSTANCES - 1,
               EXECUTIONTIMER_FORTRAN_MAX_INSTANCES}

\* how many calls of ExecutionTimerCreate fail in one executiontimer_create
CreateFails == {0, 1, EXECUTIONTIMER_FORTRAN_MAX_INSTANCES}

\* the most reset, start and stop calls of one behaviour
MaxFortranOps == 2

\* the slots that differ between two tables
SlotsChanged(before, after) == {i \in FortranSlots : before[i] # after[i]}

FortranInit ==
    /\ TimerIdle
    /\ DatumIdle
    /\ RegistryIdle
    /\ DriverIdle

FortranCreate(fails) ==
    LET made == executiontimer_create(ExecutionTimerFortranInstancesReady,
                                      ExecutionTimerFortranInstances, fails)
    IN  /\ ExecutionTimerFortranInstancesReady' = made.ready
        /\ ExecutionTimerFortranInstances' = made.instances
        /\ fortranLive' = IF made.result # -1 THEN fortranLive \cup {made.result}
                                              ELSE fortranLive
        /\ fortranCall' =
              [NoFortranCall EXCEPT
                  !.op = "create", !.result = made.result, !.fails = fails,
                  !.liveBefore = fortranLive,
                  !.changed = SlotsChanged(ExecutionTimerFortranInstances, made.instances)]
        /\ UNCHANGED <<timerVars, datumVars, registryVars, listVars, objectVars,
                       mainOwnVars, parseVars, handleVars, tokenVars, ompVars, fortranOps>>

FortranDestroy(timer_id) ==
    LET destroyed == executiontimer_destroy(ExecutionTimerFortranInstancesReady,
                                            ExecutionTimerFortranInstances, timer_id)
    IN  /\ ExecutionTimerFortranInstances' = destroyed.instances
        /\ fortranLive' = fortranLive \ {timer_id}
        /\ fortranCall' =
              [NoFortranCall EXCEPT
                  !.op = "destroy", !.timer_id = timer_id,
                  !.idAfter = destroyed.timer_id, !.released = destroyed.released,
                  !.liveBefore = fortranLive,
                  !.changed = SlotsChanged(ExecutionTimerFortranInstances,
                                           destroyed.instances)]
        /\ UNCHANGED <<timerVars, datumVars, registryVars, listVars, objectVars,
                       mainOwnVars, parseVars, handleVars, tokenVars, ompVars, ExecutionTimerFortranInstancesReady, fortranOps>>

\* a call of a subroutine that leaves timer_id as it is and returns nothing
FortranCalled(op, timer_id, instances) ==
    /\ fortranOps < MaxFortranOps
    /\ fortranOps' = fortranOps + 1
    /\ ExecutionTimerFortranInstances' = instances
    /\ fortranCall' =
          [NoFortranCall EXCEPT
              !.op = op, !.timer_id = timer_id, !.idAfter = timer_id,
              !.liveBefore = fortranLive,
              !.changed = SlotsChanged(ExecutionTimerFortranInstances, instances)]
    /\ UNCHANGED <<timerVars, datumVars, registryVars, listVars, objectVars,
                   mainOwnVars, parseVars, handleVars, tokenVars, ompVars, ExecutionTimerFortranInstancesReady, fortranLive>>

FortranReset(timer_id) ==
    FortranCalled("reset", timer_id,
                  executiontimer_reset(ExecutionTimerFortranInstancesReady,
                                       ExecutionTimerFortranInstances, timer_id))

FortranStart(timer_id) ==
    FortranCalled("start", timer_id,
                  executiontimer_start(ExecutionTimerFortranInstancesReady,
                                       ExecutionTimerFortranInstances, timer_id, env))

FortranStop(timer_id) ==
    FortranCalled("stop", timer_id,
                  executiontimer_stop(ExecutionTimerFortranInstancesReady,
                                      ExecutionTimerFortranInstances, timer_id, env))

FortranGetValue(timer_id) ==
    /\ fortranCall' =
          [NoFortranCall EXCEPT
              !.op = "getvalue", !.timer_id = timer_id, !.idAfter = timer_id,
              !.liveBefore = fortranLive,
              !.value = executiontimer_getvalue(ExecutionTimerFortranInstancesReady,
                                                ExecutionTimerFortranInstances, timer_id,
                                                ExecutionTimerMetricWalltime,
                                                ExecutionTimerValueLastValue)]
    /\ UNCHANGED <<timerVars, datumVars, registryVars, listVars, objectVars,
                   mainOwnVars, parseVars, handleVars, tokenVars, ompVars, ExecutionTimerFortranInstancesReady,
                   ExecutionTimerFortranInstances, fortranLive, fortranOps>>

FortranNext ==
    \/ \E fails \in CreateFails : FortranCreate(fails)
    \/ \E timer_id \in FortranIds : FortranDestroy(timer_id)
    \/ \E timer_id \in FortranIds : FortranReset(timer_id)
    \/ \E timer_id \in FortranIds : FortranStart(timer_id)
    \/ \E timer_id \in FortranIds : FortranStop(timer_id)
    \/ \E timer_id \in FortranIds : FortranGetValue(timer_id)

SpecFortran == FortranInit /\ [][FortranNext]_vars

(***************************************************************************)
(* SpecThreads: calls of __MatrixInitMethodSimpleOMPInit and of            *)
(* __MatrixMultiplyMethodBasicFortranOMPMultiply (with mat_mult_openmp)    *)
(* on `timer`, in a build with OpenMP, under every assignment of the       *)
(* loop's iterations to the threads and every interleaving of the threads. *)
(***************************************************************************)
\* the most threads of a team
MaxThreads == 3

\* the largest matrix dimension
MaxRows == 2

ThreadsInit ==
    /\ TimerIdle
    /\ DatumIdle
    /\ RegistryIdle
    /\ DriverIdle

\* the callback up to the parallel region: omp_set_num_threads(nthreads) and
\* ExecutionTimerStart(timer), run by the calling thread
OmpStart(callback, nthreads, n) ==
    /\ ompPc \in {"idle", "returned"}
    /\ timer.cycleCount < MaxCycles
    /\ ompCallback' = callback
    /\ ompNumThreads' = nthreads
    /\ ompN' = n
    /\ timer' = ExecutionTimerStart(timer, env)
    /\ ompTimerCall' = [op |-> "Start", thread |-> MasterThread,
                        running |-> ompTeam \ ompArrived]
    /\ ompPc' = "started"
    /\ UNCHANGED <<allocated, env, ticks, shadow, lastOp, consecStarts, cyclesDone,
                   lastStartNow, sampleStarts, resetSeen, lastSample, openAtReset,
                   releasesOverRetains, datumVars, registryVars, listVars, objectVars,
                   mainOwnVars, parseVars, handleVars, tokenVars, fortranVars, ompTeam, ompRowsOf, ompWritten, ompArrived>>

\* #pragma omp parallel / #pragma omp for: the team is formed and the
\* iterations are divided among its threads
OmpFork(rowsOf) ==
    /\ ompPc = "started"
    /\ ompTeam' = Team(ompNumThreads)
    /\ ompRowsOf' = rowsOf
    /\ ompWritten' = {}
    /\ ompArrived' = {}
    /\ ompPc' = "parallel"
    /\ UNCHANGED <<timerVars, datumVars, registryVars, listVars, objectVars,
                   mainOwnVars, parseVars, handleVars, tokenVars, fortranVars, ompCallback, ompNumThreads, ompN,
                   ompTimerCall>>

\* a thread of the team runs its next iteration: the row's elements are stored
OmpWork(t) ==
    /\ ompPc = "parallel"
    /\ t \in ompTeam \ ompArrived
    /\ RowsLeft(ompRowsOf, ompWritten, t) # {}
    /\ ompWritten' = ompWritten \cup
          {CHOOSE i \in RowsLeft(ompRowsOf, ompWritten, t) :
              \A j \in RowsLeft(ompRowsOf, ompWritten, t) : i <= j}
    /\ UNCHANGED <<timerVars, datumVars, registryVars, listVars, objectVars,
                   mainOwnVars, parseVars, handleVars, tokenVars, fortranVars, ompPc, ompCallback, ompNumThreads, ompN,
                   ompTeam, ompRowsOf, ompArrived, ompTimerCall>>

\* a thread that has run its iterations arrives at the end of the region
OmpArrive(t) ==
    /\ ompPc = "parallel"
    /\ t \in ompTeam \ ompArrived
    /\ RowsLeft(ompRowsOf, ompWritten, t) = {}
    /\ ompArrived' = ompArrived \cup {t}
    /\ UNCHANGED <<timerVars, datumVars, registryVars, listVars, objectVars,
                   mainOwnVars, parseVars, handleVars, tokenVars, fortranVars, ompPc, ompCallback, ompNumThreads, ompN,
                   ompTeam, ompRowsOf, ompWritten, ompTimerCall>>

\* the master thread leaves the region and runs ExecutionTimerStop(timer),
\* omp_set_num_threads(1) and return true
OmpStop ==
    /\ ompPc = "parallel"
    /\ RegionJoined(ompTeam, ompArrived)
    /\ timer' = ExecutionTimerStop(timer, env)
    /\ ompTimerCall' = [op |-> "Stop", thread |-> MasterThread,
                        running |-> ompTeam \ ompArrived]
    /\ ompNumThreads' = 1
    /\ ompPc' = "returned"
    /\ UNCHANGED <<allocated, env, ticks, shadow, lastOp, consecStarts, cyclesDone,
                   lastStartNow, sampleStarts, resetSeen, lastSample, openAtReset,
                   releasesOverRetains, datumVars, registryVars, listVars, objectVars,
                   mainOwnVars, parseVars, handleVars, tokenVars, fortranVars, ompCallback, ompN, ompTeam, ompRowsOf,
                   ompWritten, ompArrived>>

ThreadsNext ==
    \/ \E callback \in {"__MatrixInitMethodSimpleOMPInit",
                        "__MatrixMultiplyMethodBasicFortranOMPMultiply"},
          nthreads \in 1..MaxThreads, n \in 1..MaxRows : OmpStart(callback, nthreads, n)
    \/ \E rowsOf \in [Rows(ompN) -> Team(ompNumThreads)] : OmpFork(rowsOf)
    \/ \E t \in ompTeam : OmpWork(t)
    \/ \E t \in ompTeam : OmpArrive(t)
    \/ OmpStop

SpecThreads == ThreadsInit /\ [][ThreadsNext]_vars

(***************************************************************************)
(* SpecHandle: one method object at a time while its caller also registers *)
(* and unregisters methods: Register, Unregister, Create, Retain, Release, *)
(* GetName and Multiply or Init in any order.                              *)
(***************************************************************************)
\* the names registered and unregistered
HandleNames == {Name_foo, Spec_blas}

\* the specifications passed to Create
HandleSpecs == {Name_foo, Spec_blas, Spec_nosuch}

\* what a Create call may meet
HandleWorlds == {CalmWorld, [CalmWorld EXCEPT !.mallocOk = FALSE]}

\* the registry the object was created from
ObjRegistry == IF objOf = "multiply" THEN multiplyStatics ELSE initStatics

HandleInit ==
    /\ TimerIdle
    /\ DatumIdle
    /\ RegistryIdle
    /\ DriverIdle

\* MatrixMultiplyMethodRegister(name, &callbacks) and
\* MatrixInitMethodRegister(name, &callbacks), at any time
HandleRegister(name) ==
    /\ multiplyStatics' =
          MatrixMultiplyMethodRegister(multiplyStatics, name, CallerCallbacks, TRUE).registry
    /\ initStatics' =
          MatrixInitMethodRegister(initStatics, name, CallerCallbacks, TRUE).registry
    /\ objOp' = "Register"
    /\ objArg' = name
    /\ objCalls' = NoCalls
    /\ UNCHANGED <<mainVars, timerVars, datumVars, regOp, regArg, regMallocOk, regResult,
                   regPlainSoFar, listVars, buildConfig, obj, objLive, objOf, objFile,
                   objDeallocs, objRetains, objReleases, objRan>>

\* MatrixMultiplyMethodUnregister(name) and MatrixInitMethodUnregister(name)
HandleUnregister(name) ==
    /\ multiplyStatics' = MatrixMultiplyMethodUnregister(multiplyStatics, name)
    /\ initStatics' = MatrixMultiplyMethodUnregister(initStatics, name)
    /\ objOp' = "Unregister"
    /\ objArg' = name
    /\ objCalls' = NoCalls
    /\ UNCHANGED <<mainVars, timerVars, datumVars, regOp, regArg, regMallocOk, regResult,
                   regPlainSoFar, listVars, buildConfig, obj, objLive, objOf, objFile,
                   objDeallocs, objRetains, objReleases, objRan>>

\* MatrixMultiplyObjectGetName(obj) or MatrixInitObjectGetName(obj)
HandleGetName(read) ==
    /\ objLive
    /\ objName' = MatrixMultiplyObjectGetName([obj EXCEPT !.method = read])
    /\ objOp' = "GetName"
    /\ objCalls' = NoCalls
    /\ UNCHANGED <<mainOwnVars, parseVars, fortranVars, ompVars, tokenVars, timerVars, datumVars,
                   registryVars, listVars, buildConfig, obj, objLive, objOf, objFile, objArg,
                   objDeallocs, objRetains, objReleases, objRan>>

\* MatrixMultiplyObjectRelease(obj) or MatrixInitObjectRelease(obj)
HandleRelease(read) ==
    LET released == MatrixMultiplyObjectRelease([obj EXCEPT !.method = read], objFile)
    IN  /\ objLive
        /\ obj' = IF released.freed THEN NoObject
                  ELSE [released.obj EXCEPT !.method = obj.method]
        /\ objLive' = ~released.freed
        /\ objFile' = released.file
        /\ objOp' = "Release"
        /\ objCalls' = [NoCalls EXCEPT !.deallocs = released.deallocs,
                                       !.freed = released.freed]
        /\ objDeallocs' = objDeallocs + Len(released.deallocs)
        /\ objReleases' = objReleases + 1
        /\ objRan' = NoRun
        /\ UNCHANGED <<mainVars, timerVars, datumVars, registryVars, listVars, buildConfig,
                       objOf, objArg, objRetains>>

\* MatrixMultiplyObjectMultiply(obj, timer, ...) or MatrixInitObjectInit(obj, timer, ...)
HandleInvoke(read) ==
    LET seen == [obj EXCEPT !.method = read]
        ran == IF objOf = "multiply"
               THEN MatrixMultiplyObjectMultiply(seen, objFile, timer, env, 1, CalmWorld,
                                                 buildConfig)
               ELSE MatrixInitObjectInit(seen, objFile, timer, env, 1, CalmWorld,
                                         buildConfig)
    IN  /\ objLive
        /\ timer.cycleCount < MaxCycles
        /\ timer' = ran.timer
        /\ objFile' = ran.file
        /\ objOp' = "Operate"
        /\ objCalls' = NoCalls
        /\ objRan' = [ok |-> ran.ok, n |-> 1, cyclesBefore |-> timer.cycleCount,
                      startedBefore |-> timer.isStarted, starts |-> ran.starts,
                      stops |-> ran.stops, reads |-> ran.reads,
                      perElement |-> ran.perElement]
        /\ UNCHANGED <<mainVars, allocated, env, ticks, shadow, lastOp, consecStarts,
                       cyclesDone, lastStartNow, sampleStarts, resetSeen, lastSample,
                       openAtReset, releasesOverRetains, datumVars, registryVars, listVars,
                       buildConfig, obj, objLive, objOf, objArg, objDeallocs, objRetains,
                       objReleases>>

HandleNext ==
    \/ \E name \in HandleNames : HandleRegister(name)
    \/ \E name \in HandleNames : HandleUnregister(name)
    \/ \E f \in {"multiply", "init"}, specification \in HandleSpecs, w \in HandleWorlds :
          ObjCreate(f, specification, w)
    \/ ObjRetain
    \/ \E read \in EntryReads(ObjRegistry, obj) : HandleGetName(read)
    \/ \E read \in EntryReads(ObjRegistry, obj) : HandleRelease(read)
    \/ \E read \in EntryReads(ObjRegistry, obj) : HandleInvoke(read)

SpecHandle == HandleInit /\ [][HandleNext]_vars

(***************************************************************************)
(* SpecTokens: CopyTokenList calls of both files with buffers of several   *)
(* sizes, and TokenList calls, on registries a caller adds names to.       *)
(***************************************************************************)
\* a name as long as the static buffer of MatrixMultiplyMethodTokenList
LongName == [i \in 1..ExpectedLength |-> "x"]

\* the names registered
TokenNames == {Name_foo, LongName}

\* the values of bufferLen passed: no buffer, room for the NUL only, less than
\* the first token, less than the list, the static buffer's size, more than
\* the longest list
BufferLens == {0, 1, 4, 20, ExpectedLength, 3 * ExpectedLength}

TokensInit ==
    /\ TimerIdle
    /\ DatumIdle
    /\ RegistryIdle
    /\ DriverIdle

\* MatrixMultiplyMethodRegister(name, &callbacks) and
\* MatrixInitMethodRegister(name, &callbacks)
TokensRegister(name) ==
    /\ multiplyStatics' =
          MatrixMultiplyMethodRegister(multiplyStatics, name, CallerCallbacks, TRUE).registry
    /\ initStatics' =
          MatrixInitMethodRegister(initStatics, name, CallerCallbacks, TRUE).registry
    /\ copyCall' = [NoCopyCall EXCEPT !.op = "Register"]
    /\ UNCHANGED <<timerVars, datumVars, regOp, regArg, regMallocOk, regResult,
                   regPlainSoFar, listVars, objectVars, mainOwnVars, parseVars, fortranVars, ompVars,
                   handleVars>>

\* MatrixMultiplyMethodCopyTokenList(buffer, bufferLen) or
\* MatrixInitMethodCopyTokenList(buffer, bufferLen), buffer having bufferLen bytes
TokensCopy(f, bufferLen) ==
    LET copied == MatrixMultiplyMethodCopyTokenList(
                     IF f = "multiply" THEN multiplyStatics ELSE initStatics, bufferLen)
    IN  /\ multiplyStatics' = IF f = "multiply" THEN copied.registry ELSE multiplyStatics
        /\ initStatics' = IF f = "init" THEN copied.registry ELSE initStatics
        /\ copyCall' = [op |-> "CopyTokenList", of |-> f, bufferLen |-> bufferLen,
                        text |-> copied.text, totalLen |-> copied.totalLen,
                        overrun |-> copied.overrun]
        /\ UNCHANGED <<timerVars, datumVars, regOp, regArg, regMallocOk, regResult,
                       regPlainSoFar, listVars, objectVars, mainOwnVars, parseVars, fortranVars,
                       ompVars, handleVars>>

\* MatrixMultiplyMethodTokenList()
TokensTokenList ==
    LET listed == MatrixMultiplyMethodTokenList(multiplyStatics, tokenListStatics)
    IN  /\ multiplyStatics' = listed.registry
        /\ tokenListStatics' = listed.tokenList
        /\ copyCall' = [op |-> "TokenList", of |-> "multiply", bufferLen |-> ExpectedLength,
                        text |-> listed.text, totalLen |-> strlen(listed.text),
                        overrun |-> listed.overrun]
        /\ UNCHANGED <<timerVars, datumVars, initStatics, regOp, regArg, regMallocOk,
                       regResult, regPlainSoFar, listHeap, multiplyMethods, listArg,
                       listBefore, parses, objectVars, mainOwnVars, parseVars, fortranVars, ompVars,
                       handleVars>>

TokensNext ==
    \/ \E name \in TokenNames : TokensRegister(name)
    \/ \E f \in {"multiply", "init"}, bufferLen \in BufferLens : TokensCopy(f, bufferLen)
    \/ TokensTokenList

SpecTokens == TokensInit /\ [][TokensNext]_vars
(***************************************************************************)
(* SpecParse: MultiplyMethodListParse followed one loop iteration at a     *)
(* time, its recursive calls as activation records, on registries a        *)
(* caller adds names to.                                                   *)
(***************************************************************************)
\* the names registered
ParseNames == {Name_foo, Name_all}

\* the spec strings parsed
ParseSpecs == {Spec_eq_all, Spec_less_all_plus_basic, Spec_basic_opt, Spec_opt_gap_blas,
               Spec_upper}

\* the most activation records followed
MaxDepth == 3

ParseInit ==
    /\ TimerIdle
    /\ DatumIdle
    /\ RegistryIdle
    /\ DriverIdle

\* MatrixMultiplyMethodRegister(name, &callbacks) between two parses
ParseRegister(name) ==
    /\ parsePc # "running"
    /\ multiplyStatics' =
          MatrixMultiplyMethodRegister(multiplyStatics, name, CallerCallbacks, TRUE).registry
    /\ UNCHANGED <<timerVars, datumVars, initStatics, regOp, regArg, regMallocOk, regResult,
                   regPlainSoFar, listVars, objectVars, mainOwnVars, fortranVars, ompVars,
                   handleVars, tokenVars, parseVars>>

\* MultiplyMethodListParse(&multiplyMethods, nameList) up to its while loop
ParseCall(nameList) ==
    LET entered == ParseEntered(listHeap, multiplyMethods, nameList, multiplyStatics,
                                tokenListStatics)
    IN  /\ parsePc # "running"
        /\ parses < MaxParses
        /\ parsePc' = "running"
        /\ parseFrames' = <<entered.frame>>
        /\ listHeap' = entered.heap
        /\ listArg' = nameList
        /\ listBefore' = ListFrom(listHeap, multiplyMethods)
        /\ parses' = parses + 1
        /\ UNCHANGED <<timerVars, datumVars, registryVars, multiplyMethods,
                       tokenListStatics, objectVars, mainOwnVars, fortranVars, ompVars,
                       handleVars, tokenVars>>

\* one loop iteration of the innermost call on a token that is not an added
\* "all": a name found, removed or appended, or "-all"
ParseToken ==
    /\ parsePc = "running"
    /\ Len(parseFrames) > 0
    /\ parseFrames[Len(parseFrames)].nameList # <<>>
    /\ LET top  == parseFrames[Len(parseFrames)]
           tok  == TokenAt(top.nameList)
           done == ParseTokens(listHeap, top.list, tok.piece \o <<",">>, multiplyStatics,
                               tokenListStatics)
       IN  /\ ~(tok.isAll /\ ~tok.shouldRemove)
           /\ listHeap' = done.heap
           /\ parseFrames' = [parseFrames EXCEPT ![Len(parseFrames)] =
                                 [@ EXCEPT !.list = done.list,
                                           !.nameList = SkipComma(tok.endPtr)]]
    /\ UNCHANGED <<timerVars, datumVars, registryVars, multiplyMethods, tokenListStatics,
                   listArg, listBefore, parses, objectVars, mainOwnVars, fortranVars,
                   ompVars, handleVars, tokenVars, parsePc>>

\* the loop iteration of the innermost call on an added "all", up to the while
\* loop of the call it makes: the list scrubbed, allMethods filled, its bars
\* turned into commas, MultiplyMethodListParse(&list, allMethods) entered
ParseExpandAll ==
    /\ parsePc = "running"
    /\ Len(parseFrames) > 0
    /\ Len(parseFrames) < MaxDepth
    /\ parseFrames[Len(parseFrames)].nameList # <<>>
    /\ LET top      == parseFrames[Len(parseFrames)]
           tok      == TokenAt(top.nameList)
           scrubbed == __MultiplyMethodListDealloc(listHeap, top.list)
           cached   == MatrixMultiplyMethodTokenList(multiplyStatics, tokenListStatics)
           copied   == MatrixMultiplyMethodCopyTokenList(cached.registry,
                                                         strlen(cached.text) + 1)
           entered  == ParseEntered(scrubbed, NullNode, BarsToCommas(copied.text),
                                    copied.registry, cached.tokenList)
       IN  /\ tok.isAll /\ ~tok.shouldRemove
           /\ listHeap' = entered.heap
           /\ multiplyStatics' = copied.registry
           /\ tokenListStatics' = cached.tokenList
           /\ parseFrames' = [parseFrames EXCEPT ![Len(parseFrames)] =
                                 [@ EXCEPT !.list = NullNode, !.endPtr = tok.endPtr]]
                             \o <<entered.frame>>
    /\ UNCHANGED <<timerVars, datumVars, initStatics, regOp, regArg, regMallocOk, regResult,
                   regPlainSoFar, multiplyMethods, listArg, listBefore, parses, objectVars,
                   mainOwnVars, fortranVars, ompVars, handleVars, tokenVars, parsePc>>

\* the innermost call leaves its loop, *methodList = list, and returns: to the
\* caller of the parser, or into the iteration that expanded "all", which
\* then moves nameList to endPtr and over a comma
ParseReturn ==
    /\ parsePc = "running"
    /\ Len(parseFrames) > 0
    /\ parseFrames[Len(parseFrames)].nameList = <<>>
    /\ LET depth == Len(parseFrames)
           top   == parseFrames[depth]
       IN  IF depth = 1
           THEN /\ multiplyMethods' = top.list
                /\ parseFrames' = <<>>
                /\ parsePc' = "returned"
           ELSE /\ parseFrames' = [SubSeq(parseFrames, 1, depth - 1) EXCEPT ![depth - 1] =
                                      [@ EXCEPT !.list = top.list,
                                                !.nameList = SkipComma(parseFrames[depth - 1].endPtr)]]
                /\ UNCHANGED <<multiplyMethods, parsePc>>
    /\ UNCHANGED <<timerVars, datumVars, registryVars, listHeap, tokenListStatics, listArg,
                   listBefore, parses, objectVars, mainOwnVars, fortranVars, ompVars,
                   handleVars, tokenVars>>

ParseNext ==
    \/ \E name \in ParseNames : ParseRegister(name)
    \/ \E nameList \in ParseSpecs : ParseCall(nameList)
    \/ ParseToken
    \/ ParseExpandAll
    \/ ParseReturn

SpecParse == ParseInit /\ [][ParseNext]_vars

(***************************************************************************)
(* Properties of the timer (Spec).  "Started" is read off the calls made   *)
(* (lastOp = "Start"), the samples off the clock (lastSample, Spent).  In  *)
(* the step properties a call is named by its action; the tests of lastOp  *)
(* and lastOp' written before it follow from the action and only spare     *)
(* its evaluation on the steps of other calls.                             *)
(***************************************************************************)
ValueKinds == 0..(ExecutionTimerValueEOL - 1)

StatisticKinds == ValueKinds \ {ExecutionTimerValueLastValue}

\* the step changes what the timer has recorded
RecordsSomething ==
    \/ timer'.cycleCount # timer.cycleCount
    \/ timer'.metrics # timer.metrics

\* C1: a Start made while the timer is started changes neither cycleCount nor
\* any accumulator; between two live states only a Stop made while started (or
\* a Reset) changes them; and a Stop after two or more Starts in a row counts
\* one cycle and records, for every metric, what was spent since the last of
\* those Starts.
C1_RestartRecordsNothing ==
    [][ /\ (lastOp = "Start" /\ lastOp' = "Start" /\ Start) => ~RecordsSomething
        /\ (allocated /\ allocated' /\ RecordsSomething)
              => (Reset \/ (lastOp = "Start" /\ Stop))
        /\ (lastOp = "Start" /\ consecStarts >= 2 /\ lastOp' = "Stop" /\ Stop)
              => /\ timer'.cycleCount = timer.cycleCount + 1
                 /\ \A m \in Metrics :
                       timer'.metrics[m].value = Spent(lastStartNow, env, m)
      ]_vars

\* Start, half a second, Start again, half a second, Stop: one cycle of 0.5 s
C1_Witness ==
    /\ allocated
    /\ lastOp = "Stop"
    /\ sampleStarts = 2
    /\ timer.cycleCount = 1
    /\ ticks = 2
    /\ lastStartNow.time = [sec |-> 0, sub |-> NSEC_PER_SEC \div 2]
    /\ timer.metrics[ExecutionTimerMetricWalltime].value = Fin(1, 2)

\* C2: cycleCount is the number of Stops made while started since the timer
\* was created or last reset.
C2_CycleCountCountsStops ==
    allocated => ExecutionTimerCycleCount(timer) = cyclesDone

C2_Witness ==
    /\ allocated
    /\ resetSeen
    /\ lastOp = "Stop"
    /\ cyclesDone = 2
    /\ ExecutionTimerCycleCount(timer) = 2

\* C3: HasStatistics is false exactly while at most one cycle has completed;
\* then GetValue gives INFINITY for minimum, maximum, average, variance and
\* standard deviation of every metric; the last value is the one cycle's
\* observation after one cycle and INFINITY after none; and a metric out of
\* range gives INFINITY whatever is asked.
C3_NoStatisticsBeforeTwoCycles ==
    allocated =>
        /\ ExecutionTimerHasStatistics(timer) = (cyclesDone > 1)
        /\ cyclesDone <= 1 =>
              \A m \in Metrics : \A v \in StatisticKinds :
                  ExecutionTimerGetValue(timer, m, v) = INFINITY
        /\ cyclesDone = 1 =>
              \A m \in Metrics :
                  ExecutionTimerGetValue(timer, m, ExecutionTimerValueLastValue)
                      = lastSample[m]
        /\ cyclesDone = 0 =>
              \A m \in Metrics :
                  ExecutionTimerGetValue(timer, m, ExecutionTimerValueLastValue)
                      = INFINITY
        /\ \A m \in ExecutionTimerMetricEOL..(ExecutionTimerMetricEOL + 1) :
              \A v \in 0..ExecutionTimerValueEOL :
                  ExecutionTimerGetValue(timer, m, v) = INFINITY

\* one cycle of half a second of user CPU: its last value is known, its minimum is not
C3_Witness ==
    /\ allocated
    /\ cyclesDone = 1
    /\ ExecutionTimerGetValue(timer, ExecutionTimerMetricUserCPU,
                              ExecutionTimerValueLastValue) = Fin(1, 2)
    /\ ExecutionTimerGetValue(timer, ExecutionTimerMetricUserCPU,
                              ExecutionTimerValueMin) = INFINITY
    /\ ~ExecutionTimerHasStatistics(timer)

\* C6: Reset, in whatever state, leaves cycleCount 0, isStarted false and every
\* field of the seven accumulators zero, and the reference count as it was;
\* a Stop that comes right after a Reset records nothing.
C6_ResetClearsAll ==
    [][ /\ (lastOp' = "Reset" /\ Reset) =>
              /\ timer'.cycleCount = 0
              /\ timer'.isStarted = FALSE
              /\ \A m \in Metrics :
                    /\ timer'.metrics[m].value = D(0)
                    /\ timer'.metrics[m].min = D(0)
                    /\ timer'.metrics[m].max = D(0)
                    /\ timer'.metrics[m].m_i = D(0)
                    /\ timer'.metrics[m].s_i = D(0)
              /\ timer'.refCount = timer.refCount
        /\ (lastOp = "Reset" /\ lastOp' = "Stop" /\ Stop) => ~RecordsSomething
      ]_vars

\* a Reset cut a window open since the last half second, on a timer retained
\* once, and a Stop followed
C6_Witness ==
    /\ allocated
    /\ lastOp = "Stop"
    /\ openAtReset
    /\ timer.refCount = 2
    /\ timer.cycleCount = 0
    /\ lastStartNow.time # ZeroTime
    /\ \A m \in Metrics : timer.metrics[m] = ExecutionTimerDatumReset(JunkDatum)

\* what a caller can see of a timer
Observe(t) ==
    [cycleCount    |-> ExecutionTimerCycleCount(t),
     hasStatistics |-> ExecutionTimerHasStatistics(t),
     isStarted     |-> ExecutionTimerIsStarted(t),
     values        |-> [m \in Metrics |-> [v \in ValueKinds |->
                           ExecutionTimerGetValue(t, m, v)]]]

\* C7: after a Reset the timer shows what a timer created at that moment
\* shows under the same Start and Stop calls; after one cycle the minimum, the
\* maximum, the mean and the last value of every accumulator are that cycle's
\* observation and cycleCount is 1.
C7_ResetIsAsFresh ==
    (allocated /\ resetSeen) =>
        /\ Observe(timer) = Observe(shadow)
        /\ cyclesDone = 1 =>
              /\ timer.cycleCount = 1
              /\ \A m \in Metrics :
                    /\ timer.metrics[m].value = lastSample[m]
                    /\ timer.metrics[m].min = lastSample[m]
                    /\ timer.metrics[m].max = lastSample[m]
                    /\ timer.metrics[m].m_i = lastSample[m]

\* two cycles after a Reset, with a variance to show
C7_Witness ==
    /\ allocated
    /\ resetSeen
    /\ cyclesDone = 2
    /\ ExecutionTimerGetValue(timer, ExecutionTimerMetricWalltime,
                              ExecutionTimerValueVariance) # D(0)
    /\ Observe(timer) = Observe(shadow)

\* C8: a Stop made while the timer is not started leaves the whole block as it
\* was: cycleCount, isStarted, the four snapshots, the seven accumulators (and
\* the reference count).
C8_StopWhenIdleIsNoOp ==
    [][ (lastOp # "Start" /\ lastOp' = "Stop" /\ Stop) => timer' = timer ]_vars

\* a Stop, one second after creation, on a timer never started
C8_Witness ==
    /\ allocated
    /\ lastOp = "Stop"
    /\ ~resetSeen
    /\ cyclesDone = 0
    /\ ticks = 2
    /\ timer.cycleCount = 0

\* C9: IsStarted is true exactly when the latest of the Create, Start, Stop
\* and Reset calls was a Start.
C9_StartedIffLastOpStart ==
    allocated => (ExecutionTimerIsStarted(timer) <=> lastOp = "Start")

\* started again after a completed cycle
C9_Witness ==
    /\ allocated
    /\ lastOp = "Start"
    /\ cyclesDone = 1
    /\ ExecutionTimerIsStarted(timer)

(***************************************************************************)
(* Properties of the accumulator (SpecDatum).                              *)
(***************************************************************************)
RECURSIVE SumSeq(_)
SumSeq(h) == IF h = <<>> THEN 0 ELSE Head(h) + SumSeq(Tail(h))

\* the arithmetic mean of the values of h
Mean(h) == Fin(SumSeq(h), Len(h))

\* the unbiased sample variance of the values of h, Len(h) >= 2:
\* sum of (v - mean)^2 over Len(h) - 1
SampleVariance(h) ==
    LET n == Len(h)
        S == SumSeq(h)
        sq == [i \in 1..n |-> (n * h[i] - S) * (n * h[i] - S)]
    IN  Fin(SumSeq(sq), n * n * (n - 1))

\* C4: after Update(1, v1) .. Update(n, vn) on a reset accumulator, n >= 1,
\* Average is the arithmetic mean of v1..vn.
C4_AverageIsMean ==
    (accInSeq /\ accN >= 1) => ExecutionTimerDatumGetAverage(acc) = Mean(accHist)

\* the samples 2, 4 have mean 3
C4_Witness ==
    /\ accInSeq
    /\ accHist = <<2, 4>>
    /\ ExecutionTimerDatumGetAverage(acc) = D(3)

\* C5: after Update(1, v1) .. Update(n, vn) on a reset accumulator, n >= 2,
\* Variance(n) is the unbiased sample variance of v1..vn, and each of those
\* updates adds to the sum of squares (value - mean before) * (value - mean after).
C5_VarianceIsSampleVariance ==
    [][ (accInSeq' /\ accN' >= 2 /\ accCalls' = accCalls + 1) =>
            /\ ExecutionTimerDatumGetVariance(acc', accN') = SampleVariance(accHist')
            /\ acc'.s_i = DAdd(acc.s_i, DMul(DSub(D(accArg'), acc.m_i),
                                             DSub(D(accArg'), acc'.m_i)))
      ]_vars

\* the samples 2, 4 have variance 2; their standard deviation is the surd of 2
C5_Witness ==
    /\ accInSeq
    /\ accHist = <<2, 4>>
    /\ ExecutionTimerDatumGetVariance(acc, accN) = D(2)
    /\ ExecutionTimerDatumGetStdDeviation(acc, accN) = [cls |-> "sqrt", num |-> 2, den |-> 1]

\* C10, as claimed: after Update(1, value), whatever the accumulator held,
\* lastValue = min = max = runningMean = value and runningSumSq = 0.
C10_FirstUpdateZeroesSumSq ==
    accN = 1 =>
        /\ acc.value = D(accArg)
        /\ acc.min = D(accArg)
        /\ acc.max = D(accArg)
        /\ acc.m_i = D(accArg)
        /\ acc.s_i = D(0)

\* C10, amended: Update(1, value), whatever the accumulator held, leaves
\* lastValue = min = max = runningMean = value and runningSumSq as it was,
\* which is 0 when nothing was recorded since the reset.
C10_FirstUpdateKeepsSumSq ==
    [][ (accN' = 1 /\ accCalls' = accCalls + 1) =>
            /\ acc'.value = D(accArg')
            /\ acc'.min = D(accArg')
            /\ acc'.max = D(accArg')
            /\ acc'.m_i = D(accArg')
            /\ acc'.s_i = acc.s_i
            /\ accCalls = 0 => acc'.s_i = D(0)
      ]_vars

\* Update(1, 2), Update(2, 4), then Update(1, 1): the sum of squares of the
\* first two samples is still there
C10_Witness ==
    /\ accN = 1
    /\ accCalls = 3
    /\ acc.value = D(1)
    /\ acc.min = D(1)
    /\ acc.s_i = D(2)

\* the smallest and the largest of the values of h, Len(h) >= 1
MinOf(h) == CHOOSE v \in {h[i] : i \in 1..Len(h)} : \A i \in 1..Len(h) : v <= h[i]

MaxOf(h) == CHOOSE v \in {h[i] : i \in 1..Len(h)} : \A i \in 1..Len(h) : v >= h[i]

\* C11: after Update(1, v1) .. Update(n, vn) on a reset accumulator, n >= 1,
\* min is the smallest and max the largest of v1..vn, lastValue is vn, and
\* min <= runningMean <= max.
C11_ExtremaAndLastValue ==
    (accInSeq /\ accN >= 1) =>
        /\ acc.min = D(MinOf(accHist))
        /\ acc.max = D(MaxOf(accHist))
        /\ acc.value = D(accHist[Len(accHist)])
        /\ ~DLt(acc.m_i, acc.min)
        /\ ~DGt(acc.m_i, acc.max)

\* the samples 2, -1, 4: the extrema are neither the first nor the last
\* sample alone, and the mean 5/3 lies strictly between them
C11_Witness ==
    /\ accInSeq
    /\ accHist = <<2, -1, 4>>
    /\ acc.min = D(-1)
    /\ acc.max = D(4)
    /\ acc.value = D(4)
    /\ acc.m_i = Fin(5, 3)

\* C12: a Stop issued while started adds one to cycleCount and applies to each
\* of the seven accumulators one Update with n = the new cycleCount; the value
\* is what was spent between the latest Start and the Stop for walltime, user
\* CPU, system CPU, swaps, blocks in and blocks out, and the peak resident
\* size at the Stop itself (not a difference).
C12_StopUpdatesEveryMetricOnce ==
    [][ (lastOp = "Start" /\ lastOp' = "Stop" /\ Stop) =>
            /\ Cardinality(Metrics) = 7
            /\ timer'.cycleCount = timer.cycleCount + 1
            /\ \A m \in Metrics \ {ExecutionTimerMetricMaxRSS} :
                  timer'.metrics[m] =
                      ExecutionTimerDatumUpdate(timer.metrics[m], timer'.cycleCount,
                                                Spent(lastStartNow, env, m))
            /\ timer'.metrics[ExecutionTimerMetricMaxRSS] =
                  ExecutionTimerDatumUpdate(timer.metrics[ExecutionTimerMetricMaxRSS],
                                            timer'.cycleCount, D(env.usage.ru_maxrss))
      ]_vars

\* a second cycle that paged once: the peak resident size recorded is the 2 in
\* use at the Stop, not the 1 it grew by, while the swap count recorded is 1
C12_Witness ==
    /\ allocated
    /\ lastOp = "Stop"
    /\ timer.cycleCount = 2
    /\ env.usage.ru_maxrss = 2
    /\ timer.metrics[ExecutionTimerMetricMaxRSS].value = D(2)
    /\ timer.metrics[ExecutionTimerMetricMaxRSS].min = D(1)
    /\ timer.metrics[ExecutionTimerMetricNSwaps].value = D(1)
    /\ timer.metrics[ExecutionTimerMetricIOBlocksOut].value = D(2)

\* C13: a created Timer has reference count 1; each Retain leaves the same
\* block live with one reference more and each Release takes one away, so the
\* count is 1 plus the Retains less the Releases; the block is freed exactly
\* when the Releases are one more than the Retains and is live before that;
\* a step that is neither Create, Retain nor Release (Start, Stop, Reset, and
\* reading values, which changes nothing at all) leaves the count as it was.
C13_ReferenceCounting ==
    /\ [](/\ allocated <=> releasesOverRetains < 1
          /\ allocated => timer.refCount = 1 - releasesOverRetains)
    /\ [][ /\ (allocated /\ releasesOverRetains' = releasesOverRetains /\ lastOp' # "Create")
                => (allocated' /\ timer'.refCount = timer.refCount)
           /\ (allocated /\ releasesOverRetains' = releasesOverRetains - 1)
                => (allocated' /\ timer' = [timer EXCEPT !.refCount = @ + 1])
           /\ (~allocated /\ allocated') => timer'.refCount = 1
      ]_vars

\* a timer retained once, run through a cycle and a Reset and a new Start,
\* still holds its two references
C13_Witness ==
    /\ allocated
    /\ releasesOverRetains = -1
    /\ timer.refCount = 2
    /\ resetSeen
    /\ lastOp = "Start"

\* the block is gone after Create, Retain, Release, Release
C13_WitnessFreed ==
    /\ ~allocated
    /\ releasesOverRetains = 1

(***************************************************************************)
(* Properties of the registries (SpecRegistry).                            *)
(***************************************************************************)
Registries == {"multiply", "init"}

StaticsOf(f) == IF f = "multiply" THEN multiplyStatics ELSE initStatics

\* the names in a registry's list, in list order
NamesOf(r) == [i \in 1..Len(r.methods) |-> r.methods[i].name]

\* two strings are the same up to the case of their letters
EqualsNoCase(a, b) ==
    /\ Len(a) = Len(b)
    /\ \A i \in 1..Len(a) : tolower(a[i]) = tolower(b[i])

\* name is the whole specification, or a leading part of it that is
\* immediately followed by '='
MatchRule(name, specification) ==
    \/ EqualsNoCase(name, specification)
    \/ \E k \in 1..(Len(specification) - 1) :
          /\ specification[k + 1] = "="
          /\ EqualsNoCase(name, SubSeq(specification, 1, k))

\* C14: Lookup(specification) returns an entry only if the entry's name
\* satisfies the match rule for the specification, and not-found only if no
\* registered name does; "basic" is never resolved to "basic-fortran", and
\* "basic=5" is resolved to "basic" where "basic" is registered.
C14_LookupFollowsMatchRule ==
    regOp = "Lookup" =>
        \A f \in Registries :
            LET names == NamesOf(StaticsOf(f))
                found == regResult[f]
            IN  /\ found # NULL.name =>
                      /\ \E i \in 1..Len(names) : names[i] = found
                      /\ MatchRule(found, regArg)
                /\ found = NULL.name =>
                      \A i \in 1..Len(names) : ~MatchRule(names[i], regArg)
                /\ regArg = Name_basic => found # Name_basic_fortran
                /\ (regArg = Name_basic_eq_5 /\ \E i \in 1..Len(names) : names[i] = Name_basic)
                      => found = Name_basic

\* "basic=5" looked up: the multiply registry answers "basic"; the init
\* registry, which holds no such name, answers not-found
C14_Witness ==
    /\ regOp = "Lookup"
    /\ regArg = Name_basic_eq_5
    /\ regResult.multiply = Name_basic
    /\ regResult.init = NULL.name

\* "basic-fortran" looked up: "basic", nearer the head of the list and a
\* leading part of it, is passed over
C14_WitnessPrefix ==
    /\ regOp = "Lookup"
    /\ regArg = Name_basic_fortran
    /\ regResult.multiply = Name_basic_fortran

\* the positions of the entries whose names satisfy the match rule
Matching(names, specification) ==
    {i \in 1..Len(names) : MatchRule(names[i], specification)}

\* C15, as claimed: when registered names satisfy the match rule for the
\* specification, Lookup returns the longest of them.
C15_LookupReturnsLongest ==
    regOp = "Lookup" =>
        \A f \in Registries :
            LET names == NamesOf(StaticsOf(f))
            IN  \A i \in Matching(names, regArg) : Len(names[i]) <= Len(regResult[f])

\* C15, amended: when registered names satisfy the match rule for the
\* specification, Lookup returns the one nearest the head of the list (the
\* most recently registered of them), which is the shortest of them.
C15_LookupReturnsNearestHead ==
    regOp = "Lookup" =>
        \A f \in Registries :
            LET names == NamesOf(StaticsOf(f))
                hits  == Matching(names, regArg)
            IN  hits # {} =>
                    /\ \E i \in hits : /\ \A j \in hits : i <= j
                                       /\ regResult[f] = names[i]
                    /\ \A i \in hits : Len(regResult[f]) <= Len(names[i])

\* "foo=1" registered, then "foo": both match the specification "foo=1", and
\* Lookup answers "foo"
C15_Witness ==
    /\ regOp = "Lookup"
    /\ regArg = Name_foo_eq_1
    /\ Cardinality(Matching(NamesOf(multiplyStatics), regArg)) = 2
    /\ regResult.multiply = Name_foo

\* the statics once the built-ins are in: what the first call that looks at
\* the list makes of them before it does anything else
WithBuiltIns(r) == IF r.IsInitialized THEN r ELSE __MatrixMultiplyMethodInitialize(r)

\* C16: Register(name, callbacks) returns false if and only if name is empty,
\* the allocation fails, or an entry whose name equals name without regard to
\* case is registered already; otherwise (for every other non-empty name, one
\* that contains '=' included) it returns true and the new entry is in the
\* registry; on a false return the registry is as it was.
C16_RegisterRefusesOnlyDuplicates ==
    [][ regOp' = "Register" =>
            \A f \in Registries :
                LET before == WithBuiltIns(StaticsOf(f)).methods
                    after  == StaticsOf(f)'.methods
                    refuse == \/ regArg' = Name_empty
                              \/ ~regMallocOk'
                              \/ \E i \in 1..Len(before) :
                                    EqualsNoCase(before[i].name, regArg')
                IN  /\ regResult'[f] = ~refuse
                    /\ regResult'[f] =>
                          /\ Len(after) = Len(before) + 1
                          /\ \E i \in 1..Len(after) : after[i].name = regArg'
                    /\ ~regResult'[f] => after = before
      ]_vars

\* C17: in every reachable state of either registry no two entries have
\* names that are equal without regard to case.
C17_NamesAreUnique ==
    \A f \in Registries :
        LET names == NamesOf(StaticsOf(f))
        IN  \A i, j \in 1..Len(names) : EqualsNoCase(names[i], names[j]) => i = j

\* "Foo" is registered and a Register of "foo", its allocation at hand, has
\* just been refused by both registries
C17_Witness ==
    /\ regOp = "Register"
    /\ regArg = Name_foo
    /\ regMallocOk
    /\ regResult = [multiply |-> FALSE, init |-> FALSE]
    /\ \A f \in Registries :
          \E i \in 1..Len(StaticsOf(f).methods) : StaticsOf(f).methods[i].name = Name_Foo

\* the built-ins of the file whose statics r are
BuiltInsOf(r) ==
    IF r.file = "MatrixMultiplyMethod.c" THEN MultiplyBuiltIns ELSE InitBuiltIns(r.HAVE_OPENMP)

\* how many entries of the list bear the name
Occurrences(r, name) == Cardinality({i \in 1..Len(r.methods) : r.methods[i].name = name})

WithoutAt(s, i) == [k \in 1..(Len(s) - 1) |-> IF k < i THEN s[k] ELSE s[k + 1]]

\* C19: Unregister(name) removes the one entry whose name equals name without
\* regard to case, and only if that entry is marked removable; for an unknown
\* or a protected name the registry is as it was; in every case all other
\* entries stay, in their order, and nothing else of the registry changes.
C19_UnregisterRemovesOnlyTheNamed ==
    [][ regOp' = "Unregister" =>
            \A f \in Registries :
                LET before == StaticsOf(f).methods
                    after  == StaticsOf(f)'.methods
                    named  == {i \in 1..Len(before) : EqualsNoCase(before[i].name, regArg')}
                IN  /\ StaticsOf(f)' = [StaticsOf(f) EXCEPT !.methods = after]
                    /\ IF \E i \in named : before[i].canBeUnregistered
                       THEN \E i \in named : /\ named = {i}
                                             /\ after = WithoutAt(before, i)
                       ELSE after = before
      ]_vars

\* "foo=1" and then "foo" were registered and "Foo" has just been
\* unregistered: the multiply registry has lost "foo" and kept "foo=1", the
\* init registry, whose entry is not removable, has kept both
C19_Witness ==
    /\ regOp = "Unregister"
    /\ regArg = Name_Foo
    /\ Occurrences(multiplyStatics, Name_foo) = 0
    /\ Occurrences(multiplyStatics, Name_foo_eq_1) = 1
    /\ Occurrences(initStatics, Name_foo) = 1
    /\ Occurrences(initStatics, Name_foo_eq_1) = 1

\* C20: while only plain (non-built-in) names have been passed, Register and
\* Lookup return the same from the multiply and from the init registry; and
\* in either registry an Unregister of such a name leaves no entry of that
\* name, so that a Lookup of it fails and it can be registered again.
C20_RegistriesBehaveAlike ==
    [][ /\ (regPlainSoFar' /\ regOp' \in {"Register", "Lookup"})
              => regResult'.multiply = regResult'.init
        /\ (regPlainSoFar' /\ regOp' = "Unregister")
              => \A f \in Registries :
                    \A i \in 1..Len(StaticsOf(f)'.methods) :
                        ~EqualsNoCase(StaticsOf(f)'.methods[i].name, regArg')
      ]_vars

\* what the multiply registry enumerates when only its built-ins are registered
MultiplyBuiltInTokens ==
    << <<"b", "a", "s", "i", "c">>,
       <<"b", "a", "s", "i", "c", "-", "f", "o", "r", "t", "r", "a", "n">>,
       <<"s", "m", "a", "r", "t", "-", "f", "o", "r", "t", "r", "a", "n">>,
       <<"o", "p", "t", "-", "f", "o", "r", "t", "r", "a", "n">>,
       <<"b", "a", "s", "i", "c", "-", "f", "o", "r", "t", "r", "a", "n", "-", "o", "m", "p">>,
       <<"o", "p", "t", "-", "f", "o", "r", "t", "r", "a", "n", "-", "o", "m", "p">>,
       <<"b", "l", "a", "s">>,
       <<"b", "l", "a", "s", "-", "f", "o", "r", "t", "r", "a", "n">> >>

\* what the init registry enumerates when only its built-ins are registered
InitBuiltInTokens(HAVE_OPENMP) ==
    << <<"n", "o", "o", "p">>,
       <<"z", "e", "r", "o">>,
       <<"s", "i", "m", "p", "l", "e">> >>
    \o (IF HAVE_OPENMP THEN << <<"s", "i", "m", "p", "l", "e", "-", "o", "m", "p">> >> ELSE << >>)
    \o
    << <<"r", "a", "n", "d", "o", "m", "{", "=", "#", "#", "#", "}">>,
       <<"f", "i", "l", "e", "=", "{", "o", "p", "t", "{", ",", ".", ".", "}", ":", "}", "<", "n", "a", "m", "e", ">">> >>

RECURSIVE CommaSeparated(_)
CommaSeparated(s) ==
    IF s = <<>> THEN <<>>
    ELSE IF \A i \in 1..Len(s) : s[i] # ","
         THEN <<s>>
         ELSE LET c == CHOOSE i \in 1..Len(s) : s[i] = "," /\ \A j \in 1..(i - 1) : s[j] # ","
              IN  <<SubSeq(s, 1, c - 1)>> \o CommaSeparated(SubSeq(s, c + 1, Len(s)))

\* a token without its '+' or '-'
Unsigned(token) ==
    IF token # <<>> /\ token[1] \in {"+", "-"} THEN Tail(token) ELSE token

\* the set (kept in order of addition) after one token
AfterToken(set, token, universe) ==
    LET removes == token # <<>> /\ token[1] = "-"
        name    == Unsigned(token)
    IN  IF EqualsNoCase(name, Name_all)
        THEN IF removes THEN <<>> ELSE universe
        ELSE IF removes
             THEN SelectSeq(set, LAMBDA held : ~EqualsNoCase(held, name))
             ELSE IF \E i \in 1..Len(set) : EqualsNoCase(set[i], name)
                  THEN set
                  ELSE Append(set, name)

RECURSIVE AfterTokens(_, _, _)
AfterTokens(set, tokens, universe) ==
    IF tokens = <<>> THEN set
    ELSE AfterTokens(AfterToken(set, Head(tokens), universe), Tail(tokens), universe)

\* the set after a whole spec
AfterSpec(set, spec, universe) ==
    IF spec # <<>> /\ spec[1] = "="
    THEN AfterTokens(<<>>, CommaSeparated(Tail(spec)), universe)
    ELSE AfterTokens(set, CommaSeparated(spec), universe)

Name_opt == <<"o", "p", "t">>

Name_blas == <<"b", "l", "a", "s">>

\* the names the list holds
SelectedMethods == ListFrom(listHeap, multiplyMethods)

\* C22: MultiplyMethodListParse handles the tokens of the spec from left to
\* right: a leading '=' on the spec empties the set first; a token with '+'
\* or no sign is appended unless the set holds it already, letter case apart;
\* a token with '-' removes that name; "all" puts every registered multiply
\* method in place of the set and "-all" empties it.  From {basic, opt},
\* "-opt,+blas" gives {basic, blas}, "=all" every registered method and
\* "-all,+basic" gives {basic}; the set never holds a name twice.
C22_ParseAppliesTokensInOrder ==
    parses > 0 =>
        LET universe == NamesOf(WithBuiltIns(multiplyStatics))
            twice(set) == \E i, j \in 1..Len(set) : i < j /\ EqualsNoCase(set[i], set[j])
        IN  /\ SelectedMethods = AfterSpec(listBefore, listArg, universe)
            /\ listBefore = <<Name_basic, Name_opt>> =>
                  /\ listArg = Spec_less_opt_plus_blas => SelectedMethods = <<Name_basic, Name_blas>>
                  /\ listArg = Spec_eq_all => SelectedMethods = universe
                  /\ listArg = Spec_less_all_plus_basic => SelectedMethods = <<Name_basic>>
            /\ ~twice(SelectedMethods)

\* "-opt,+blas" was applied to {basic, opt}, after "=all" and other specs
C22_Witness ==
    /\ parses = 3
    /\ listBefore = <<Name_basic, Name_opt>>
    /\ listArg = Spec_less_opt_plus_blas
    /\ SelectedMethods = <<Name_basic, Name_blas>>
    /\ multiplyStatics.IsInitialized

\* "=all" was applied to {basic, opt}
C22_WitnessAll ==
    /\ listBefore = <<Name_basic, Name_opt>>
    /\ listArg = Spec_eq_all
    /\ Len(SelectedMethods) = Len(MultiplyBuiltIns)

\* the part of a specification before its first '=' (all of it when it has none)
BeforeFirstEquals(s) ==
    IF \A i \in 1..Len(s) : s[i] # "=" THEN s
    ELSE SubSeq(s, 1, (CHOOSE i \in 1..Len(s) :
                          s[i] = "=" /\ \A j \in 1..(i - 1) : s[j] # "=") - 1)

\* the part after its first '=' (empty when it has none)
AfterFirstEquals(s) ==
    IF \A i \in 1..Len(s) : s[i] # "=" THEN <<>>
    ELSE SubSeq(s, (CHOOSE i \in 1..Len(s) :
                       s[i] = "=" /\ \A j \in 1..(i - 1) : s[j] # "=") + 1, Len(s))

\* the alloc callback was called in the latest call and reported failure
AllocFailed == \E i \in 1..Len(objCalls.allocs) : ~objCalls.allocs[i].ok

\* the latest call returned NULL, left no object allocated and did not call dealloc
ReturnedNull ==
    /\ objCalls.returned = NoObject
    /\ ~objLive
    /\ objCalls.deallocs = <<>>
    /\ objCalls.allocs # <<>> => objCalls.freed

\* C23, as claimed: Create(specification) splits the specification at its
\* first '=', binds the handle to the entry whose name is the part before it
\* and calls that entry's alloc with exactly the text after that '=' (the empty
\* string without one); it returns null, with no handle left and dealloc not
\* called, when the lookup fails or alloc reports failure, and otherwise a
\* handle with reference count 1.
C23_CreateSplitsAtFirstEquals ==
    objOp = "Create" =>
        LET r     == StaticsOf(objOf)
            named == {i \in 1..Len(r.methods) :
                         EqualsNoCase(r.methods[i].name, BeforeFirstEquals(objArg))}
        IN  IF named = {} \/ AllocFailed
            THEN ReturnedNull
            ELSE /\ objLive
                 /\ obj = objCalls.returned
                 /\ obj.refCount = 1
                 /\ \E i \in named : obj.method = r.methods[i]
                 /\ HasAlloc(obj.method.callbacks) =>
                       objCalls.allocs = <<[inArgs |-> AfterFirstEquals(objArg), ok |-> TRUE]>>

\* C23, amended: Create(specification) binds the handle to the entry that
\* Lookup finds for the whole specification: the entry nearest the head of the
\* list whose name is the specification or a leading part of it followed by
\* '=' (for a name that contains '=' that is not the part before the first
\* '=').  If that entry has an alloc callback, Create calls it once, with
\* exactly the text after the first '=' of the specification (the empty string
\* without one).  It returns null, with no handle left and dealloc not called,
\* when the lookup fails, the handle cannot be allocated or alloc reports
\* failure, and otherwise a handle with reference count 1.
C23_CreateBindsTheEntryLookupFinds ==
    objOp = "Create" =>
        LET r     == StaticsOf(objOf)
            hits  == Matching(NamesOf(r), objArg)
            mp    == r.methods[CHOOSE i \in hits : \A j \in hits : i <= j]
        IN  /\ IF hits = {} \/ objCalls.noMemory \/ AllocFailed
               THEN ReturnedNull
               ELSE /\ objLive
                    /\ obj = objCalls.returned
                    /\ obj.refCount = 1
                    /\ obj.method = mp
            /\ objCalls.allocs =
                  IF hits # {} /\ ~objCalls.noMemory /\ HasAlloc(mp.callbacks)
                  THEN <<[inArgs |-> AfterFirstEquals(objArg), ok |-> objLive]>>
                  ELSE <<>>

\* "foo=1" is registered and "foo" is not: Create("foo=1") returns a handle
\* on "foo=1" whose alloc was handed "1"
C23_Witness ==
    /\ objOp = "Create"
    /\ objArg = Name_foo_eq_1
    /\ objLive
    /\ obj.refCount = 1
    /\ obj.method.name = Name_foo_eq_1
    /\ objCalls.allocs = <<[inArgs |-> <<"1">>, ok |-> TRUE]>>
    /\ \A i \in 1..Len(StaticsOf(objOf).methods) :
          StaticsOf(objOf).methods[i].name # Name_foo

\* the alloc callback of "foo" reported failure
C23_WitnessAllocFails ==
    /\ objOp = "Create"
    /\ objArg = Name_foo
    /\ AllocFailed
    /\ ReturnedNull

C24_WitnessNoDealloc ==
    /\ objOp = "Release"
    /\ objArg = Spec_blas
    /\ ~objLive
    /\ objDeallocs = 0

\* the latest call ran the operate callback of a built-in method
BuiltInRan ==
    /\ objOp = "Operate"
    /\ obj.method.callbacks.functions \notin {"caller", "none"}

\* C25: every call of the operate callback of a built-in multiply or init
\* method makes exactly one ExecutionTimerStart and then exactly one
\* ExecutionTimerStop on the timer it is given, whatever the build and whatever
\* it returns: when the call returns the timer is not started and its
\* cycleCount is one more than before.
C25_OperateRunsOneTimerCycle ==
    BuiltInRan =>
        /\ objRan.starts = 1
        /\ objRan.stops = 1
        /\ ~ExecutionTimerIsStarted(timer)
        /\ ExecutionTimerCycleCount(timer) = objRan.cyclesBefore + 1

Name_file == <<"f", "i", "l", "e">>

\* the open flag an option of the file method stands for
FlagOf(option) ==
    CASE EqualsNoCase(option, <<"s", "y", "n", "c">>) -> "O_SYNC"
      [] EqualsNoCase(option, <<"n", "o", "a", "t", "i", "m", "e">>) -> "O_NOATIME"
      [] EqualsNoCase(option, <<"d", "i", "r", "e", "c", "t">>) -> "O_DIRECT"
      [] OTHER -> "none"

\* the part of a text before its first ':'
BeforeColon(s) ==
    SubSeq(s, 1, (CHOOSE i \in 1..Len(s) : s[i] = ":" /\ \A j \in 1..(i - 1) : s[j] # ":") - 1)

\* the part of a text after its first ':'
AfterColon(s) ==
    SubSeq(s, (CHOOSE i \in 1..Len(s) : s[i] = ":" /\ \A j \in 1..(i - 1) : s[j] # ":") + 1,
           Len(s))

\* C26: creating a file init handle with the specification
\* file=<o1>,...,<ok>:<name>, every option one of sync, noatime and (in a build
\* with direct I/O) direct, opens <name> with the open flag of every listed
\* option set: "file=direct,noatime:/tmp/mats" opens /tmp/mats with O_DIRECT
\* and O_NOATIME, "file=direct:mat" opens mat with O_DIRECT.
C26_FileOptionsSetOpenFlags ==
    LET inArgs  == AfterFirstEquals(objArg)
        options == CommaSeparated(BeforeColon(inArgs))
        flags   == {FlagOf(options[i]) : i \in 1..Len(options)}
    IN  ( /\ objOp = "Create"
          /\ objOf = "init"
          /\ objCalls.allocs # <<>>
          /\ EqualsNoCase(BeforeFirstEquals(objArg), Name_file)
          /\ \E i \in 1..Len(inArgs) : inArgs[i] = ":"
          /\ "none" \notin flags
          /\ "O_DIRECT" \in flags => buildConfig.HAVE_DIRECTIO )
        => objCalls.opens = <<[path |-> AfterColon(inArgs), oflags |-> flags]>>

\* the latest call ran the init callback of the file method
FileInitRan ==
    /\ objOp = "Operate"
    /\ obj.method.callbacks.functions = "__MatrixInitMethodFile"

\* C27: in the file init method, a first read of an element that is at the
\* end of the file or delivers less than one element makes exactly one rewind
\* to offset 0 and, when the rewind succeeds, exactly one more read of that
\* element; no element is rewound for twice.  The call returns false, at that
\* element, if the rewind fails or the retry does not deliver a whole element,
\* and returns true only if every one of the n * n elements was filled by a
\* read of full size.
C27_OneRewindAndRetryPerElement ==
    FileInitRan =>
        LET handled == objRan.perElement
            retried == {i \in 1..Len(handled) : handled[i].retries >= 1}
        IN  /\ \A i \in 1..Len(handled) :
                  LET e == handled[i]
                  IN  /\ e.rewinds = IF e.first >= 0 /\ e.first < SizeofReal THEN 1 ELSE 0
                      /\ e.retries = IF e.rewinds = 1 /\ ~e.seekFailed THEN 1 ELSE 0
                      /\ (e.seekFailed \/ (e.retries = 1 /\ e.last # SizeofReal)) =>
                            ~objRan.ok /\ i = Len(handled)
            /\ objRan.reads = Len(handled) + Cardinality(retried)
            /\ objRan.ok =>
                  /\ Len(handled) = objRan.n * objRan.n
                  /\ \A i \in 1..Len(handled) : handled[i].last = SizeofReal
            /\ \A i \in retried : handled[i].last = SizeofReal => objFile.offset >= SizeofReal

\* a file of one element and a half filled a 2 x 2 matrix: the reads that
\* came short were each followed by one rewind and one full read
C27_Witness ==
    /\ FileInitRan
    /\ objRan.ok
    /\ objRan.n = 2
    /\ \E i \in 1..4 : /\ objRan.perElement[i].first = SizeofReal \div 2
                       /\ objRan.perElement[i].rewinds = 1
                       /\ objRan.perElement[i].last = SizeofReal
    /\ \E i \in 1..4 : objRan.perElement[i].rewinds = 0

\* the file is empty: the retry after the rewind delivers nothing and the
\* call returns false
C27_WitnessEmptyFile ==
    /\ FileInitRan
    /\ ~objRan.ok
    /\ objRan.perElement = <<[first |-> 0, rewinds |-> 1, seekFailed |-> FALSE,
                              retries |-> 1, last |-> 0]>>

\* lseek() failed after a short read
C27_WitnessRewindFails ==
    /\ FileInitRan
    /\ ~objRan.ok
    /\ objRan.perElement[Len(objRan.perElement)].seekFailed

(***************************************************************************)
(* Properties of main (SpecMain).                                          *)
(***************************************************************************)
\* the multiply registry has an entry that Lookup finds for name
Registered(name) ==
    __MatrixMultiplyMethodLookup(multiplyStatics, name, strlen(name)).mp # 0

\* the names of the selected list that MultiplyMethodListIter has handed out
Reached ==
    LET names == ListFrom(listHeap, multiplyMethods)
    IN  SubSeq(names, 1, Len(names) - Len(ListFrom(listHeap, iterMultiplyMethods)))

\* the passes of the for loop completed before the method now reached
PassesBefore == (Len(Reached) - 1) * nloop

\* all results but the last are true
OnlyLastMayBeFalse(oks) == \A i \in 1..Len(oks) - 1 : oks[i]

\* C28: the driver ends the process with status EINVAL when the init
\* specification cannot be created (before any Init or Multiply call and any
\* summary) and when a name of the selected list is not registered, and with
\* status 1 when an Init or Multiply call returns false; the call that
\* returned false is the last one made, and at the end of the process the
\* calls made and summaries printed are those of the methods and passes
\* completed before the error, no more.
C28_FatalErrors ==
    /\ mainCall.kind = "init create" /\ mainCall.returned = NoObject
          => /\ mainPc = "exit" /\ exitStatus = EINVAL
             /\ inits = 0 /\ multiplies = 0 /\ summaries = <<>>
    /\ mainCall.kind = "multiply create"
            /\ (mainCall.returned = NoObject \/ ~Registered(mainCall.name))
          => /\ mainPc = "exit" /\ exitStatus = EINVAL
             /\ mainCall.returned = NoObject
             /\ Len(summaries) = Len(Reached) - 1
             /\ multiplies = PassesBefore
             /\ inits = 3 * PassesBefore
    /\ mainCall.kind = "loop body"
          => /\ OnlyLastMayBeFalse(mainCall.initOks \o mainCall.multiplyOks)
             /\ Len(mainCall.initOks) + Len(mainCall.multiplyOks) \in 1..4
             /\ (\E i \in 1..Len(mainCall.initOks) : ~mainCall.initOks[i])
                  \/ (\E i \in 1..Len(mainCall.multiplyOks) : ~mainCall.multiplyOks[i])
                  => /\ mainPc = "exit" /\ exitStatus = 1
                     /\ Len(summaries) = Len(Reached) - 1
                     /\ multiplies = PassesBefore + loop + Len(mainCall.multiplyOks)
                     /\ inits = 3 * (PassesBefore + loop) + Len(mainCall.initOks)
    /\ mainPc = "exit" /\ exitStatus # 0 => errorPrinted # ""

\* an Init call of the second method's run returned false
C28_Witness ==
    /\ mainPc = "exit"
    /\ exitStatus = 1
    /\ errorPrinted = "failure in iteration of init method"
    /\ Len(summaries) = 1
    /\ inits > 3 * nloop

\* the init specification names no method
C28_WitnessNoInit ==
    /\ mainPc = "exit"
    /\ exitStatus = EINVAL
    /\ mainCall.kind = "init create"
    /\ initMethod = Spec_nosuch

\* the third name of the list is not registered
C28_WitnessNoMethod ==
    /\ mainPc = "exit"
    /\ exitStatus = EINVAL
    /\ mainCall.kind = "multiply create"
    /\ mainCall.name = Spec_nosuch
    /\ Len(Reached) = 3

\* C29: every summary of the multiply timer shows as many cycles as -l asked
\* for, DEFAULT_NLOOP when no -l was passed.
C29_NloopOptionSetsCycles ==
    \A i \in 1..Len(summaries) :
        summaries[i].timer = "matMulTimer"
            => summaries[i].cycleCount =
                  IF nloopAsked # 0 THEN nloopAsked ELSE DEFAULT_NLOOP

\* what the code does: -l changes nothing, every method runs DEFAULT_NLOOP times
C29_NloopIsAlwaysTheDefault ==
    /\ nloop = DEFAULT_NLOOP
    /\ \A i \in 1..Len(summaries) :
          summaries[i].timer = "matMulTimer"
            => summaries[i].cycleCount \in {0, DEFAULT_NLOOP}
    /\ mainPc = "methods" => multiplies = DEFAULT_NLOOP * Len(summaries)

\* a method was summarised in a run with -l 2
C29_WitnessAsked ==
    /\ nloopAsked = 2
    /\ Len(summaries) > 0

\* C30 as claimed: when main reports a name of the list that is not
\* registered, no Multiply call was made and no summary printed.
C30_UnknownNameRejectedFirst ==
    errorPrinted = "no such multiplication method" /\ ~Registered(mainCall.name)
        => multiplies = 0 /\ summaries = <<>>

\* C30: a name of the list that is not registered is reported when the loop
\* over the list reaches it, and ends the process with EINVAL: each name
\* before it is registered, had nloop Multiply calls and its summary printed,
\* in list order; no Multiply call is made for the name or for one after it,
\* and the loop never passes over a name that is not registered.
C30_UnknownNameRejectedWhenReached ==
    /\ mainCall.kind = "multiply create" /\ ~Registered(mainCall.name)
          => /\ mainPc = "exit"
             /\ exitStatus = EINVAL
             /\ errorPrinted = "no such multiplication method"
             /\ multiplies = PassesBefore
             /\ [i \in 1..Len(summaries) |-> summaries[i].name]
                    = SubSeq(Reached, 1, Len(Reached) - 1)
             /\ \A i \in 1..Len(summaries) : summaries[i].timer = "matMulTimer"
    /\ mainPc \in {"methods", "loop"}
          => \A i \in 1..Len(Reached) : Registered(Reached[i])

\* the third name of the list is not registered: two methods ran before
C30_Witness ==
    /\ errorPrinted = "no such multiplication method"
    /\ ~Registered(mainCall.name)
    /\ Len(summaries) = 2
    /\ multiplies = 2 * nloop

\* the first name of the list is not registered
C30_WitnessFirst ==
    /\ errorPrinted = "no such multiplication method"
    /\ ~Registered(mainCall.name)
    /\ Len(Reached) = 1
    /\ Len(ListFrom(listHeap, multiplyMethods)) = 2


\* the multiply method of the name makes its Start and Stop calls in the build
TimesItsCalls(name) == name = Name_blas => buildConfig.HAVE_BLAS

\* C31: in a run of the driver over M selected multiply methods of nloop passes
\* each, the multiply timer is reset before each method, so each method's
\* summary covers exactly its nloop cycles; the init timer is never reset and
\* pools all Init calls: it gains 3 cycles a pass and holds 3 * nloop * M
\* cycles when it is summarised at the end.
C31_MultiplyTimerPerMethodInitTimerPooled ==
    /\ \A i \in 1..Len(summaries) :
          summaries[i].timer = "matMulTimer" => summaries[i].cycleCount = nloop
    /\ mainPc = "loop" => /\ timer.cycleCount = loop
                          /\ matInitTimer.cycleCount = 3 * (nloop * Len(summaries) + loop)
    /\ mainPc = "methods"
          => /\ Len(summaries) = Len(Reached)
             /\ matInitTimer.cycleCount = 3 * nloop * Len(summaries)
    /\ mainCall.kind = "end"
          => /\ summaries[Len(summaries)].timer = "matInitTimer"
             /\ summaries[Len(summaries)].cycleCount = 3 * nloop * (Len(summaries) - 1)

\* the same with the cycles of a method counted only where its callback makes
\* the Start and Stop calls
C31_PooledWhereCallsAreTimed ==
    /\ \A i \in 1..Len(summaries) :
          summaries[i].timer = "matMulTimer"
            => summaries[i].cycleCount =
                  IF TimesItsCalls(summaries[i].name) THEN nloop ELSE 0
    /\ mainPc = "loop" => matInitTimer.cycleCount = 3 * (nloop * Len(summaries) + loop)
    /\ mainPc = "methods"
          => /\ Len(summaries) = Len(Reached)
             /\ matInitTimer.cycleCount = 3 * nloop * Len(summaries)
    /\ mainCall.kind = "end"
          => /\ summaries[Len(summaries)].timer = "matInitTimer"
             /\ summaries[Len(summaries)].cycleCount = 3 * nloop * (Len(summaries) - 1)

\* a run over two methods came to its end
C31_WitnessTwoMethods ==
    /\ mainCall.kind = "end"
    /\ Len(summaries) = 3
    /\ summaries[3].cycleCount = 24

\* the run of blas in a build without BLAS was summarised
C31_WitnessUntimed ==
    /\ ~buildConfig.HAVE_BLAS
    /\ Len(summaries) > 0
    /\ summaries[1].name = Name_blas
    /\ summaries[1].cycleCount = 0

\* the string with every upper-case letter replaced by its lower-case letter
Lowered(s) == [i \in 1..Len(s) |-> tolower(s[i])]

\* the five formats
Formats == ExecutionTimerOutputFormatTable..ExecutionTimerOutputFormatYAML

\* C32: ExecutionTimerOutputFormatParse and ExecutionTimerOutputFormatToString
\* round-trip: Parse(ToString(f)) = f for each of the five formats, matching
\* without regard to case; Parse of NULL or of the empty string is table; Parse
\* of any other string is the Invalid value, for which ToString returns NULL,
\* and the driver then keeps the format selected before.
C32_FormatRoundTrip ==
    /\ \A f \in Formats :
          ExecutionTimerOutputFormatParse(ExecutionTimerOutputFormatToString(f)) = f
    /\ ExecutionTimerOutputFormatParse(NullString) = ExecutionTimerOutputFormatTable
    /\ ExecutionTimerOutputFormatToString(ExecutionTimerOutputFormatInvalid) = NullString
    /\ mainPc # "start"
          => /\ timerOutputFormat \in Formats
             /\ ExecutionTimerOutputFormatParse(
                    ExecutionTimerOutputFormatToString(timerOutputFormat)) = timerOutputFormat
    /\ formatCall # NoFormatCall
          => LET named == {f \in Formats :
                              Lowered(formatCall.optarg)
                                 = __ExecutionTimerOutputFormatStrings[f + 1]}
             IN  /\ formatCall.optarg = <<>>
                       => formatCall.newFormat = ExecutionTimerOutputFormatTable
                 /\ named # {} => formatCall.newFormat \in named
                 /\ formatCall.optarg # <<>> /\ named = {}
                       => /\ formatCall.newFormat = ExecutionTimerOutputFormatInvalid
                          /\ ExecutionTimerOutputFormatToString(formatCall.newFormat)
                                = NullString
                          /\ timerOutputFormat = formatCall.before
                 /\ formatCall.newFormat # ExecutionTimerOutputFormatInvalid
                       => timerOutputFormat = formatCall.newFormat

\* -f JSON selected json
C32_Witness ==
    /\ formatCall.optarg = <<"J", "S", "O", "N">>
    /\ timerOutputFormat = ExecutionTimerOutputFormatJSON

\* -f tab after -f csv left csv selected
C32_WitnessInvalid ==
    /\ formatCall.optarg = <<"t", "a", "b">>
    /\ formatCall.warned
    /\ timerOutputFormat = ExecutionTimerOutputFormatCSV

\* the slots that hold a timer
Occupied == {i \in FortranSlots : ExecutionTimerFortranInstances[i] # NullTimerRef}

\* the least member of a non-empty set of slots
Lowest(slots) == CHOOSE i \in slots : \A j \in slots : i <= j

C33_WitnessFull ==
    /\ fortranCall.op = "create"
    /\ fortranCall.fails = 0
    /\ fortranCall.liveBefore = FortranSlots
    /\ fortranCall.result = -1

\* start was called with the id of a destroyed timer
C33_WitnessStale ==
    /\ fortranCall.op = "start"
    /\ fortranCall.timer_id = 1
    /\ 1 \notin fortranLive
    /\ 0 \in fortranLive

\* getvalue returned a measured value
C33_WitnessValue ==
    /\ fortranCall.op = "getvalue"
    /\ fortranCall.value # HUGE_VAL

\* C34: in a threaded strategy Start and Stop are run by the one driver thread
\* outside the parallel region; every worker thread of the parallel loop has
\* finished (the region is joined) before Stop takes the end snapshot, so the
\* timer is never used by two threads at a time.
C34_TimerOutsideParallelRegion ==
    /\ ompTimerCall.thread = MasterThread
    /\ ompTimerCall.running = {}
    /\ ompPc = "parallel" => /\ ompTimerCall.op = "Start"
                             /\ timer.isStarted
    /\ ompPc = "returned"
          => /\ ompTimerCall.op = "Stop"
             /\ ~timer.isStarted
             /\ ompArrived = ompTeam
             /\ ompWritten = Rows(ompN)
             /\ \A t \in ompTeam : RowsLeft(ompRowsOf, ompWritten, t) = {}

\* Stop was called after a team of three ran two rows, the master none of them
C34_Witness ==
    /\ ompPc = "returned"
    /\ ompTeam = Team(3)
    /\ ompN = 2
    /\ \A i \in Rows(ompN) : ompRowsOf[i] # MasterThread
    /\ timer.cycleCount = 1

\* C35: whenever a method object is live (reference count >= 1), the registry
\* entry it is bound to is still in the registry: no sequence of Register,
\* Create, Unregister, Multiply or Init, GetName and Release calls leaves a live
\* object with an entry that Unregister has freed.
C35_LiveHandleKeepsItsEntry ==
    objLive => /\ obj.refCount >= 1
               /\ EntryPresent(ObjRegistry, obj)

\* what the code keeps: the entry of a live object is in the registry as long
\* as it is a built-in, which Unregister never frees
C35_BuiltInHandleKeepsItsEntry ==
    objLive /\ ~obj.method.canBeUnregistered => EntryPresent(ObjRegistry, obj)

\* GetName on an object whose entry was unregistered returned another name
C35_WitnessStaleName ==
    /\ objLive
    /\ objOp = "GetName"
    /\ ~EntryPresent(ObjRegistry, obj)
    /\ objName # obj.method.name

\* an object of a built-in method outlived an Unregister call of its name
C35_WitnessBuiltIn ==
    /\ objLive
    /\ objOp = "Unregister"
    /\ objArg = Name_blas
    /\ obj.method.name = Name_blas

\* the '|'-joined token list of the registry a call read
JoinedList(f) ==
    LET r == IF f = "multiply" THEN multiplyStatics ELSE initStatics
    IN  JoinTokens([i \in 1..Len(r.methods) |-> DisplayToken(r.methods[i])], "|")

\* C36: CopyTokenList(buffer, bufferLen) never writes outside
\* buffer[0 .. bufferLen-1], for every bufferLen (also one smaller than the
\* first token or than the whole list) and every registry content, and still
\* returns the full length of the '|'-joined token list; so TokenList() never
\* overruns its fixed-size static buffer, however many tokens are registered.
C36_CopyStaysInsideBuffer ==
    /\ copyCall.op = "CopyTokenList"
          => /\ ~copyCall.overrun
             /\ copyCall.totalLen = Len(JoinedList(copyCall.of))
    /\ copyCall.op = "TokenList" => ~copyCall.overrun

\* what the code keeps: the length returned is that of the whole list, and a
\* call writes outside its buffer exactly when the list has a token after the
\* one that does not fit with its NUL
C36_OverrunWhenATokenFollowsTheFull ==
    copyCall.op = "CopyTokenList"
        => LET r == IF copyCall.of = "multiply" THEN multiplyStatics ELSE initStatics
               tokens == [i \in 1..Len(r.methods) |-> DisplayToken(r.methods[i])]
               lengthOf(k) == Len(JoinTokens(SubSeq(tokens, 1, k), "|"))
           IN  /\ copyCall.totalLen = Len(JoinedList(copyCall.of))
               /\ copyCall.overrun
                     <=> \E k \in 1..(Len(tokens) - 1) : lengthOf(k) > copyCall.bufferLen

\* a call with a buffer smaller than the first token wrote outside it
C36_WitnessOverrun ==
    /\ copyCall.op = "CopyTokenList"
    /\ copyCall.bufferLen = 4
    /\ copyCall.overrun

\* TokenList wrote outside its static buffer
C36_WitnessTokenList ==
    /\ copyCall.op = "TokenList"
    /\ copyCall.overrun

RECURSIVE NodesFrom(_, _)
\* the addresses of the nodes from methodList on, following links[0]
NodesFrom(heap, methodList) ==
    IF methodList = NullNode THEN <<>>
    ELSE <<methodList>> \o NodesFrom(heap, heap[methodList].links[0])

\* links[1] of every node is the node before it, NULL for the first; every
\* node of the list is allocated, once in the list, and no other node is
LinksConsistent(heap, list) ==
    LET nodes == NodesFrom(heap, list)
    IN  /\ \A k \in 1..Len(nodes) :
              /\ nodes[k] \in DOMAIN heap
              /\ heap[nodes[k]].links[1] = IF k = 1 THEN NullNode ELSE nodes[k - 1]
              /\ heap[nodes[k]].methodStrLen = Len(heap[nodes[k]].methodStr)
        /\ \A j, k \in 1..Len(nodes) : nodes[j] = nodes[k] => j = k
        /\ DOMAIN heap = {nodes[k] : k \in 1..Len(nodes)}

\* C37 as claimed: every entry of the list MultiplyMethodListParse leaves is a
\* non-empty token (empty tokens as in "a,,b", a bare "+" or "-" add no
\* method), and the forward and backward links agree after every add and remove.
C37_EntriesAreNonEmpty ==
    /\ LinksConsistent(listHeap, multiplyMethods)
    /\ \A k \in 1..Len(ListFrom(listHeap, multiplyMethods)) :
          ListFrom(listHeap, multiplyMethods)[k] # <<>>

\* C37: every entry of the list MultiplyMethodListParse leaves is a token of a
\* spec string, which may be the empty one (the second of two commas in a row,
\* a bare "+"), holds no comma, and is in the list once without regard to
\* case; the forward and backward links agree after every add and remove.
C37_EntriesAreTokensOnce ==
    LET names == ListFrom(listHeap, multiplyMethods)
    IN  /\ LinksConsistent(listHeap, multiplyMethods)
        /\ \A k \in 1..Len(names) : \A i \in 1..Len(names[k]) : names[k][i] # ","
        /\ \A j, k \in 1..Len(names) : strcasecmp(names[j], names[k]) = 0 => j = k
        /\ listArg \in {Spec_plus, Spec_opt_gap_blas}
              => \E k \in 1..Len(names) : names[k] = <<>>
        /\ listArg = Spec_less => \A k \in 1..Len(names) : names[k] # <<>>

\* "opt,,blas" left an entry with an empty name between opt and blas
C37_Witness ==
    /\ listArg = Spec_opt_gap_blas
    /\ \E k \in 2..(Len(ListFrom(listHeap, multiplyMethods)) - 1) :
          /\ ListFrom(listHeap, multiplyMethods)[k] = <<>>
          /\ ListFrom(listHeap, multiplyMethods)[k - 1] = Name_opt
          /\ ListFrom(listHeap, multiplyMethods)[k + 1] = Name_blas

\* a node between two others was removed
C37_WitnessRemoved ==
    /\ listArg = Spec_less_basic_fortran
    /\ Len(listBefore) >= 3
    /\ listBefore[2] = Name_basic_fortran
    /\ Len(ListFrom(listHeap, multiplyMethods)) = Len(listBefore) - 1

\* C38 as claimed: every MultiplyMethodListParse call returns: no call is
\* entered while a call with the same arguments, heap and statics (which takes
\* the same steps and so enters it again, without end) is still active, also
\* when a registered token is "all".
C38_NoCallEntersItselfAgain ==
    \A i, j \in 1..Len(parseFrames) :
       i < j => parseFrames[i].entry # parseFrames[j].entry

\* the tokens of the registry as MatrixMultiplyMethodCopyTokenList writes them
RegisteredTokens ==
    LET r1 == IF multiplyStatics.IsInitialized THEN multiplyStatics
              ELSE __MatrixMultiplyMethodInitialize(multiplyStatics)
    IN  {DisplayToken(r1.methods[i]) : i \in 1..Len(r1.methods)}

\* C38, the part the code keeps: while no registered token is "all", the
\* expansion of "all" is entered from the outermost call only, and every call
\* in it is entered once
C38_OneExpansionWithoutAToken_all ==
    (\A t \in RegisteredTokens : strcasecmp(t, Name_all) # 0)
       => /\ Len(parseFrames) <= 2
          /\ C38_NoCallEntersItselfAgain

\* C38, the part the code keeps: a loop iteration that completes moves
\* nameList of its call forward by at least one character
C38_IterationConsumes ==
    [][\A k \in 1..Len(parseFrames) :
          (/\ k <= Len(parseFrames')
           /\ parseFrames'[k].entry = parseFrames[k].entry
           /\ parseFrames'[k].nameList # parseFrames[k].nameList)
             => Len(parseFrames'[k].nameList) < Len(parseFrames[k].nameList)]_vars

\* the expansion of "all" met the registered token "all" and expanded again
C38_WitnessAgain ==
    /\ Len(parseFrames) = 3
    /\ parseFrames[2].entry = parseFrames[3].entry
    /\ \E t \in RegisteredTokens : t = Name_all

\* an expansion of "all" over the built-in methods returned into its caller
C38_WitnessReturned ==
    /\ parsePc = "returned"
    /\ listArg = Spec_eq_all
    /\ Len(ListFrom(listHeap, multiplyMethods)) > 2
=============================================================================
